---- MODULE Spec2Model ----
(***************************************************************************)
(* The gallery wall of src/app/page.tsx: the entity store (pictures,       *)
(* windows, wall settings), its mirror in localStorage, the add dialogs    *)
(* and the drag / resize controller of PictureFrame and WindowFrame.       *)
(*                                                                         *)
(* Lengths are CSS pixels, kept as integers.  Math.random() * m is a       *)
(* choice among a few fractions of m.  An event handler, the render it     *)
(* schedules and the effects of that render are one step; the first mount  *)
(* is split into its effects, in the order React runs them.                *)
(***************************************************************************)
EXTENDS Integers, Sequences, FiniteSets, TLC

\* ------------------------------------------------------------------ constants
DEFAULT_PICTURE_SIZE == 250
MIN_SIZE == 150
MAX_SIZE == 500

\* Math.max(100, window.innerWidth - DEFAULT_PICTURE_SIZE - 100)
PLACEMENT_MARGIN == 100

\* The wall container is "p-8 sm:p-12": 2rem of padding below the sm
\* breakpoint (640px), 3rem from it on.
PADDING_P8 == 32
PADDING_SM_P12 == 48
SM_BREAKPOINT == 640

\* ------------------------------------------------------------------ bounds
\* Entities the wall may hold in the model, pictures and windows together.
MaxEntities == 2

\* Pointer-downs on frames and handles followed in one behaviour.
MaxGestures == 2

\* Math.random() is one of RandomDraws / 4.
RandomDraws == {0, 3}

\* <<window.innerWidth, window.innerHeight>>
Viewports == {<<1000, 800>>, <<300, 200>>}

GatewayIds == {"p1", "p2"}
UploadIds == {"upload-1"}
WindowIds == {"window-1", "window-2"}
PictureIds == GatewayIds \cup UploadIds

WindowStyle == {"rectangular", "arched", "circular", "gothic", "bay"}
WallTexture == {"none", "brick", "wood", "plaster", "concrete", "lines"}

defaultSettings == [backgroundColor |-> "#FEF3C7", texture |-> "lines"]

\* ------------------------------------------------------------------ state
VARIABLES
  pc,               \* "mount", "loaded", "rendering", "ready" or "crashed"
  innerWidth,       \* window.innerWidth
  innerHeight,      \* window.innerHeight
  localStorage,     \* key -> stored item
  saved,            \* the load effect's savedPictures, savedWindows, savedSettings,
                    \* kept until the render that follows it
  queued,           \* state updates the load effect has queued for the next render
  pictures,         \* Home: pictures
  windows,          \* Home: windows
  wallSettings,     \* Home: wallSettings
  home,             \* Home: prompt, loading, error, the dialogs' flags, addMode,
                    \* selectedFile, selectedWindowStyle
  pending,          \* the fetches and FileReader reads in flight, oldest first
  frames,           \* the state of each PictureFrame / WindowFrame, in the order
                    \* of its collection
  attached,         \* the mousemove and mouseup listeners attached to window
  downs,            \* pointer-downs that started a gesture so far
  server,           \* the image service: its environment, and what a call of
                    \* generateImage did
  upLost            \* the button went up where no mouseup reaches window, and
                    \* no pointer-down or mouseup has come since

vars == <<pc, innerWidth, innerHeight, localStorage, saved, queued,
          pictures, windows, wallSettings, home, pending, frames,
          attached, downs, server, upLost>>

\* ------------------------------------------------------------------ JSON
\* A stored item: nothing under the key, text JSON.parse rejects, or the
\* text of a JSON value.
Absent == [json |-> "absent"]
Corrupt == [json |-> "corrupt"]
JsonNull == [json |-> "null"]
JsonArray(items) == [json |-> "array", items |-> items]
JsonObject(members) == [json |-> "object", members |-> members]

\* JSON.stringify of a collection: one object per entity, in order, each with
\* the members the entity has.
StringifyCollection(coll) ==
  JsonArray([i \in 1..Len(coll) |-> [f \in DOMAIN coll[i] |-> coll[i][f]]])

StringifySettings(s) == JsonObject([f \in DOMAIN s |-> s[f]])

\* JSON.parse throws on text that is not JSON.
ParseThrows(item) == item.json = "corrupt"

\* ------------------------------------------------------------------ helpers
Max(a, b) == IF a >= b THEN a ELSE b
Min(a, b) == IF a <= b THEN a ELSE b

\* Math.random() * m, for the draw k of RandomDraws.
Random(m, k) == (k * m) \div 4

\* pic.x || fallback: a member that is 0 counts as missing.
CoalesceFalsy(obj, field, fallback) ==
  IF field \in DOMAIN obj /\ obj[field] # 0 THEN obj[field] ELSE fallback

\* pic.x ?? fallback: the member when the object has it, else the fallback.
Coalesce(obj, field, fallback) ==
  IF field \in DOMAIN obj THEN obj[field] ELSE fallback

\* { ...obj, [field]: value }
With(obj, field, value) ==
  [f \in DOMAIN obj \cup {field} |-> IF f = field THEN value ELSE obj[f]]

\* The frame state of a PictureFrame / WindowFrame at mount.
IdleFrame ==
  [isDragging |-> FALSE, isResizing |-> FALSE,
   dragStart |-> [x |-> 0, y |-> 0],
   resizeStart |-> [x |-> 0, y |-> 0, width |-> 0, height |-> 0],
   moveListeners |-> 0, upListeners |-> 0, cleanup |-> FALSE]

Kinds == {"picture", "window"}

NoListeners == [mousemove |-> 0, mouseup |-> 0]

\* The page is looked at without the server behind its gateway.
NoServer == [deployed |-> FALSE]

\* No entity is mounted.
NoFrames == [picture |-> <<>>, window |-> <<>>]

NoUpdate == [set |-> FALSE]
SetTo(v) == [set |-> TRUE, value |-> v]

\* ------------------------------------------------------------------ persistence
\* A map that sets the four members whether the entity has them or not.
BackfillOverwrite(obj, draw, vw, vh) ==
  With(With(With(With(obj, "x", Random(vw - DEFAULT_PICTURE_SIZE, draw[1])),
                 "y", Random(vh - DEFAULT_PICTURE_SIZE, draw[2])),
            "width", DEFAULT_PICTURE_SIZE),
       "height", DEFAULT_PICTURE_SIZE)

\* The load effect's map over a parsed snapshot: every entity keeps its
\* members and gets x, y, width and height when it lacks them.  rnd[i] is the
\* pair of draws for entity i.
Backfill(obj, draw, vw, vh) ==
  LET withX == With(obj, "x",
                 Coalesce(obj, "x", Random(vw - DEFAULT_PICTURE_SIZE, draw[1])))
      withY == With(withX, "y",
                 Coalesce(obj, "y", Random(vh - DEFAULT_PICTURE_SIZE, draw[2])))
      withW == With(withY, "width",
                 Coalesce(obj, "width", DEFAULT_PICTURE_SIZE))
  IN  With(withW, "height", Coalesce(obj, "height", DEFAULT_PICTURE_SIZE))

\* What the load effect queues for one collection slot: nothing when the key
\* is absent, nothing when JSON.parse or parsed.map throws (caught and
\* logged), else the backfilled collection.
LoadCollection(item, rnd, vw, vh) ==
  IF item.json = "absent" THEN NoUpdate
  ELSE IF ParseThrows(item) THEN NoUpdate
  ELSE IF item.json # "array" THEN NoUpdate
  ELSE SetTo([i \in 1..Len(item.items) |->
                Backfill(item.items[i], rnd[i], vw, vh)])

\* In memory, the value JSON.parse gives for the text "null".
Null == [null |-> "null"]

\* A load effect that does not read the settings slot.
LoadSettingsNever(item) == NoUpdate

\* What the load effect queues for the settings slot: the parsed value as it
\* is, when the text parses.
LoadSettings(item) ==
  IF item.json = "absent" THEN NoUpdate
  ELSE IF ParseThrows(item) THEN NoUpdate
  ELSE IF item.json = "null" THEN SetTo(Null)
  ELSE SetTo(item.members)

\* A save effect that never runs: the slot keeps what it held.
SaveCollectionNever(store, key, coll) == store

\* A save effect that writes the snapshot of an empty collection too.
SaveCollectionAlways(store, key, coll) ==
  [store EXCEPT ![key] = StringifyCollection(coll)]

\* The save effect of one collection: the snapshot when the collection is
\* non-empty, else the key removed.
SaveCollectionEffect(store, key, coll) ==
  IF Len(coll) > 0
    THEN [store EXCEPT ![key] = StringifyCollection(coll)]
    ELSE [store EXCEPT ![key] = Absent]

SaveSettingsEffect(store, s) ==
  [store EXCEPT !["wall-settings"] = StringifySettings(s)]

\* The three save effects, run after a render in which all three states
\* changed.
SaveAll(store, pics, wins, s) ==
  SaveSettingsEffect(
    SaveCollectionEffect(
      SaveCollectionEffect(store, "wall-pictures", pics),
      "wall-windows", wins),
    s)

StorageKeys == {"wall-pictures", "wall-windows", "wall-settings"}

\* ------------------------------------------------------------------ mount
\* Home's state at mount (the useState initial values).
InitialHome ==
  [prompt |-> "", loading |-> FALSE, error |-> "", showPrompt |-> TRUE,
   showSettings |-> FALSE, showWindowDialog |-> FALSE, addMode |-> "generate",
   selectedFile |-> [file |-> "none"], selectedWindowStyle |-> "rectangular"]

NoFile == [file |-> "none"]
Idle == <<>>
NothingQueued ==
  [pictures |-> NoUpdate, windows |-> NoUpdate, wallSettings |-> NoUpdate]
NothingRead == [k \in StorageKeys |-> Absent]

\* A snapshot written by the version of the page that kept no geometry
\* (pictures were GeneratedImage[]).
LegacyPictures ==
  JsonArray(<<[id |-> "p1", url |-> "http://x/img.png", prompt |-> "a cat"]>>)

\* A snapshot whose picture has x and width and lacks y and height.
PartialPictures ==
  JsonArray(<<[id |-> "p1", url |-> "http://x/img.png", prompt |-> "a cat",
               x |-> 0, width |-> 300]>>)

\* A snapshot of windows as handleAddWindow and the save effect write it.
StoredWindows ==
  JsonArray(<<[id |-> "window-1", style |-> "arched", x |-> 0, y |-> 0,
               width |-> DEFAULT_PICTURE_SIZE, height |-> DEFAULT_PICTURE_SIZE]>>)

\* What localStorage may hold when the page is first opened.
BootPictures == {Absent, Corrupt, LegacyPictures, PartialPictures}
BootWindows == {Absent, Corrupt, StoredWindows}
BootSettings ==
  {Absent, Corrupt, JsonNull, JsonObject([texture |-> "brick"])}

PageMounted(store, vp) ==
  /\ pc = "mount"
  /\ innerWidth = vp[1]
  /\ innerHeight = vp[2]
  /\ localStorage = store
  /\ saved = NothingRead
  /\ queued = NothingQueued
  /\ pictures = <<>>
  /\ windows = <<>>
  /\ wallSettings = defaultSettings
  /\ home = InitialHome
  /\ pending = Idle
  /\ frames = NoFrames
  /\ attached = NoListeners
  /\ downs = 0
  /\ upLost = FALSE

\* The page at mount, looked at without the server.
Mounted(store, vp) == PageMounted(store, vp) /\ server = NoServer

Init ==
  \E bp \in BootPictures, bw \in BootWindows, bs \in BootSettings,
     vp \in Viewports :
    Mounted([k \in StorageKeys |->
               CASE k = "wall-pictures" -> bp
                 [] k = "wall-windows" -> bw
                 [] OTHER -> bs], vp)

\* A load effect with one try around the three reads: the first throw skips
\* the slots after it.
LoadEffectOneTry(rnd) ==
  LET picturesOk == ~ParseThrows(localStorage["wall-pictures"])
      windowsOk == picturesOk /\ ~ParseThrows(localStorage["wall-windows"])
  IN  /\ pc = "mount"
      /\ saved' = localStorage
      /\ queued' =
           [pictures |-> LoadCollection(localStorage["wall-pictures"], rnd,
                                        innerWidth, innerHeight),
            windows |-> IF picturesOk
                          THEN LoadCollection(localStorage["wall-windows"], rnd,
                                              innerWidth, innerHeight)
                          ELSE NoUpdate,
            wallSettings |-> IF windowsOk
                               THEN LoadSettings(localStorage["wall-settings"])
                               ELSE NoUpdate]
      /\ pc' = "loaded"
      /\ UNCHANGED <<innerWidth, innerHeight, localStorage, pictures, windows,
                     wallSettings, home, pending, frames, attached, downs, server, upLost>>

\* The load effect: reads the three keys and queues the state updates.
LoadEffect(rnd) ==
  /\ pc = "mount"
  /\ saved' = localStorage
  /\ queued' =
       [pictures |-> LoadCollection(localStorage["wall-pictures"], rnd,
                                    innerWidth, innerHeight),
        windows |-> LoadCollection(localStorage["wall-windows"], rnd,
                                   innerWidth, innerHeight),
        wallSettings |-> LoadSettings(localStorage["wall-settings"])]
  /\ pc' = "loaded"
  /\ UNCHANGED <<innerWidth, innerHeight, localStorage, pictures, windows,
                 wallSettings, home, pending, frames, attached, downs, server, upLost>>

\* The three save effects of the first render: they see the initial state,
\* the queued updates are not applied yet.
InitialSaveEffects ==
  /\ pc = "loaded"
  /\ localStorage' = SaveAll(localStorage, pictures, windows, wallSettings)
  /\ pc' = "rendering"
  /\ UNCHANGED <<innerWidth, innerHeight, saved, queued, pictures, windows,
                 wallSettings, home, pending, frames, attached, downs, server, upLost>>

Applied(update, current) == IF update.set THEN update.value ELSE current

\* Save effects that do not run after the render of the loaded state.
SaveChangedNever(store, updates, pics, wins, s) == store

\* The save effects after a render: each runs when its state was set.
SaveChanged(store, updates, pics, wins, s) ==
  LET s1 == IF updates.pictures.set
              THEN SaveCollectionEffect(store, "wall-pictures", pics) ELSE store
      s2 == IF updates.windows.set
              THEN SaveCollectionEffect(s1, "wall-windows", wins) ELSE s1
  IN  IF updates.wallSettings.set THEN SaveSettingsEffect(s2, s) ELSE s2

\* The render with the queued updates applied.  Reading
\* wallSettings.backgroundColor of null throws: the tree unmounts and no
\* effect of this render runs.
Rerender ==
  /\ pc = "rendering"
  /\ pictures' = Applied(queued.pictures, pictures)
  /\ windows' = Applied(queued.windows, windows)
  /\ wallSettings' = Applied(queued.wallSettings, wallSettings)
  /\ queued' = NothingQueued
  /\ saved' = NothingRead
  /\ IF wallSettings' = Null
       THEN /\ pc' = "crashed"
            /\ UNCHANGED localStorage
       ELSE /\ pc' = "ready"
            /\ localStorage' = SaveChanged(localStorage, queued, pictures',
                                           windows', wallSettings')
  /\ frames' = IF pc' = "ready"
                 THEN [picture |-> [i \in 1..Len(pictures') |-> IdleFrame],
                       window |-> [i \in 1..Len(windows') |-> IdleFrame]]
                 ELSE NoFrames
  /\ UNCHANGED <<innerWidth, innerHeight, home, pending, attached, downs, server, upLost>>

\* The page is opened again: localStorage is what survives.
Reload ==
  /\ pc \in {"ready", "crashed"}
  /\ pc' = "mount"
  /\ saved' = NothingRead
  /\ queued' = NothingQueued
  /\ pictures' = <<>>
  /\ windows' = <<>>
  /\ wallSettings' = defaultSettings
  /\ home' = InitialHome
  /\ pending' = Idle
  /\ frames' = NoFrames
  /\ attached' = NoListeners
  /\ UNCHANGED <<innerWidth, innerHeight, localStorage, downs, server>>
  /\ upLost' = FALSE

\* ------------------------------------------------------------------ Home
Ready == pc = "ready"
NoOverlay ==
  ~home.showPrompt /\ ~home.showSettings /\ ~home.showWindowDialog

\* Math.random() * Math.max(100, extent - DEFAULT_PICTURE_SIZE - 100)
Placement(extent, k) ==
  Random(Max(PLACEMENT_MARGIN, extent - DEFAULT_PICTURE_SIZE - PLACEMENT_MARGIN), k)

\* { x, y, width, height, ...data }: the members of data win.
PlacedUnderData(data, draw, vw, vh) ==
  LET geometry == [x |-> Placement(vw, draw[1]), y |-> Placement(vh, draw[2]),
                   width |-> DEFAULT_PICTURE_SIZE, height |-> DEFAULT_PICTURE_SIZE]
  IN  [f \in DOMAIN data \cup DOMAIN geometry |->
         IF f \in DOMAIN data THEN data[f] ELSE geometry[f]]

\* { ...data, x, y, width: DEFAULT_PICTURE_SIZE, height: DEFAULT_PICTURE_SIZE }
Placed(data, draw, vw, vh) ==
  With(With(With(With(data, "x", Placement(vw, draw[1])),
                 "y", Placement(vh, draw[2])),
            "width", DEFAULT_PICTURE_SIZE),
       "height", DEFAULT_PICTURE_SIZE)

\* A filter that keeps the entities after the first one with this id.
RemoveUpTo(coll, id) ==
  IF \E i \in 1..Len(coll) : coll[i].id = id
    THEN SubSeq(coll, (CHOOSE i \in 1..Len(coll) :
                         /\ coll[i].id = id
                         /\ \A j \in 1..(i - 1) : coll[j].id # id) + 1,
                Len(coll))
    ELSE coll

\* prev.filter((e) => e.id !== id)
Remove(coll, id) == SelectSeq(coll, LAMBDA e : e.id # id)

\* A map that sets x and y on every entity, whatever its id.
UpdatePositionOfAll(coll, id, x, y) ==
  [i \in 1..Len(coll) |-> With(With(coll[i], "x", x), "y", y)]

\* prev.map((e) => (e.id === id ? { ...e, x, y } : e))
UpdatePosition(coll, id, x, y) ==
  [i \in 1..Len(coll) |->
     IF coll[i].id = id THEN With(With(coll[i], "x", x), "y", y) ELSE coll[i]]

\* prev.map((e) => (e.id === id ? { ...e, width, height } : e))
UpdateSize(coll, id, width, height) ==
  [i \in 1..Len(coll) |->
     IF coll[i].id = id
       THEN With(With(coll[i], "width", width), "height", height)
       ELSE coll[i]]

\* The floating "+" button, or "Add Picture" of the empty wall.
OpenPrompt ==
  /\ Ready /\ NoOverlay
  /\ home' = [home EXCEPT !.showPrompt = TRUE]
  /\ UNCHANGED <<pc, innerWidth, innerHeight, localStorage, saved, queued,
                 pictures, windows, wallSettings, pending, frames, attached, downs, server, upLost>>

\* Cancel of the prompt form, disabled while loading.
CancelPrompt ==
  /\ Ready /\ home.showPrompt /\ ~home.loading
  /\ home' = [home EXCEPT !.showPrompt = FALSE, !.error = "", !.prompt = "",
                          !.selectedFile = NoFile]
  /\ UNCHANGED <<pc, innerWidth, innerHeight, localStorage, saved, queued,
                 pictures, windows, wallSettings, pending, frames, attached, downs, server, upLost>>

\* The mode toggle of the prompt form.
SetAddMode(mode) ==
  /\ Ready /\ home.showPrompt
  /\ home' = IF mode = "generate"
               THEN [home EXCEPT !.addMode = "generate", !.error = "",
                                 !.selectedFile = NoFile]
               ELSE [home EXCEPT !.addMode = "upload", !.error = "",
                                 !.prompt = ""]
  /\ UNCHANGED <<pc, innerWidth, innerHeight, localStorage, saved, queued,
                 pictures, windows, wallSettings, pending, frames, attached, downs, server, upLost>>

\* Typing in the prompt textarea, disabled while loading.
TypePrompt(text) ==
  /\ Ready /\ home.showPrompt /\ home.addMode = "generate" /\ ~home.loading
  /\ home' = [home EXCEPT !.prompt = text]
  /\ UNCHANGED <<pc, innerWidth, innerHeight, localStorage, saved, queued,
                 pictures, windows, wallSettings, pending, frames, attached, downs, server, upLost>>

MAX_FILE_BYTES == 10 * 1024 * 1024

\* s.startsWith(prefix), a string being the sequence of its characters.
StartsWith(s, prefix) ==
  Len(s) >= Len(prefix) /\ SubSeq(s, 1, Len(prefix)) = prefix

\* file.type.startsWith('image/')
IsImageType(type) == StartsWith(type, <<"i", "m", "a", "g", "e", "/">>)

\* A handleFileSelect without the size test.
ValidatedFileAnySize(h, file) ==
  IF ~IsImageType(file.type)
    THEN [h EXCEPT !.error = "Please select an image file"]
    ELSE [h EXCEPT !.selectedFile = file, !.error = ""]

\* handleFileSelect on a file: what it leaves in Home's state.
ValidatedFile(h, file) ==
  IF ~IsImageType(file.type)
    THEN [h EXCEPT !.error = "Please select an image file"]
  ELSE IF file.size > MAX_FILE_BYTES
    THEN [h EXCEPT !.error = "Image file size must be less than 10MB"]
  ELSE [h EXCEPT !.selectedFile = file, !.error = ""]

\* handleFileSelect, the file input being disabled while loading.
FileSelect(file) ==
  /\ Ready /\ home.showPrompt /\ home.addMode = "upload" /\ ~home.loading
  /\ home' = ValidatedFile(home, file)
  /\ UNCHANGED <<pc, innerWidth, innerHeight, localStorage, saved, queued,
                 pictures, windows, wallSettings, pending, frames, attached, downs, server, upLost>>

\* "Change file" under the selected file.
ChangeFile ==
  /\ Ready /\ home.showPrompt /\ home.addMode = "upload"
  /\ home.selectedFile # NoFile
  /\ home' = [home EXCEPT !.selectedFile = NoFile]
  /\ UNCHANGED <<pc, innerWidth, innerHeight, localStorage, saved, queued,
                 pictures, windows, wallSettings, pending, frames, attached, downs, server, upLost>>

\* The acquisitions of one kind that are in flight, and what stays in flight
\* when the one at j settles.
InFlight(kind) == {j \in 1..Len(pending) : pending[j].kind = kind}
Settled(j) == SubSeq(pending, 1, j - 1) \o SubSeq(pending, j + 1, Len(pending))

\* A submit button that is not disabled while loading.
SubmitEnabledWhileLoading ==
  /\ home.addMode = "generate" => home.prompt # ""
  /\ home.addMode = "upload" => home.selectedFile # NoFile

\* The submit button is disabled while loading, without a prompt in
\* generate mode and without a file in upload mode.
SubmitEnabled ==
  /\ ~home.loading
  /\ home.addMode = "generate" => home.prompt # ""
  /\ home.addMode = "upload" => home.selectedFile # NoFile

\* handleSubmit up to its await: the fetch or the FileReader read starts.
Submit ==
  /\ Ready /\ home.showPrompt /\ SubmitEnabled
  /\ Len(pictures) + Len(windows) < MaxEntities
  /\ home' = [home EXCEPT !.loading = TRUE, !.error = ""]
  /\ pending' = Append(pending,
                       IF home.addMode = "upload"
                         THEN [kind |-> "read", file |-> home.selectedFile]
                         ELSE [kind |-> "fetch", prompt |-> home.prompt])
  /\ UNCHANGED <<pc, innerWidth, innerHeight, localStorage, saved, queued,
                 pictures, windows, wallSettings, frames, attached, downs, server, upLost>>

\* What the fetch gave: a rejection (network failure), a body that is not
\* JSON, or a JSON body with the status 2xx or not.
Throws(response) ==
  response.kind \in {"network", "non-json"} \/ ~response.ok

\* `Server returned non-JSON response: ${text.substring(0, 100)}`
NonJsonMessage(text) ==
  CASE text = "<html>" -> "Server returned non-JSON response: <html>"
    [] OTHER -> "Server returned non-JSON response: "

\* An error message that does not look at the body of the response.
ErrorMessageGeneric(response) == "Failed to generate image"

\* The message of the Error handleSubmit catches.
ErrorMessage(response) ==
  CASE response.kind = "network" -> response.message
    [] response.kind = "non-json" -> NonJsonMessage(response.text)
    [] OTHER -> IF "error" \in DOMAIN response.data /\ response.data.error # ""
                  THEN response.data.error
                  ELSE "Failed to generate image"

\* The rest of handleSubmit once the response is in: the picture is appended
\* on a 2xx JSON response; every other outcome sets the error; loading ends
\* in the finally.
FetchSettles(response, draw) ==
  /\ Ready
  /\ \E j \in InFlight("fetch") : pending' = Settled(j)
  /\ IF ~Throws(response)
       THEN /\ pictures' = Append(pictures,
                             Placed(response.data, draw, innerWidth, innerHeight))
            /\ home' = [home EXCEPT !.prompt = "", !.showPrompt = FALSE,
                                    !.loading = FALSE]
            /\ localStorage' =
                 SaveCollectionEffect(localStorage, "wall-pictures", pictures')
            /\ frames' = [frames EXCEPT !.picture = Append(@, IdleFrame)]
       ELSE /\ home' = [home EXCEPT !.error = ErrorMessage(response),
                                    !.loading = FALSE]
            /\ UNCHANGED <<pictures, localStorage, frames>>
  /\ UNCHANGED <<pc, innerWidth, innerHeight, saved, queued, windows,
                 wallSettings, attached, downs, server, upLost>>

\* A reader.onload that sets the collection to the new picture alone:
\* setPictures([newPicture]).
ReaderLoadsAlone(id, draw) ==
  /\ Ready
  /\ \E j \in InFlight("read") :
       /\ pending' = Settled(j)
       /\ pictures' =
            <<Placed([url |-> pending[j].file.dataUrl,
                      prompt |-> pending[j].file.name, id |-> id],
                     draw, innerWidth, innerHeight)>>
  /\ home' = [home EXCEPT !.selectedFile = NoFile, !.showPrompt = FALSE,
                          !.loading = FALSE]
  /\ localStorage' = SaveCollectionEffect(localStorage, "wall-pictures", pictures')
  /\ frames' = [frames EXCEPT !.picture = <<IdleFrame>>]
  /\ UNCHANGED <<pc, innerWidth, innerHeight, saved, queued, windows,
                 wallSettings, attached, downs, server, upLost>>

\* reader.onload of handleUpload: the file it names is the one selected when
\* the upload was submitted.
ReaderLoads(id, draw) ==
  /\ Ready
  /\ \E j \in InFlight("read") :
       /\ pending' = Settled(j)
       /\ pictures' = Append(pictures,
            Placed([url |-> pending[j].file.dataUrl,
                    prompt |-> pending[j].file.name, id |-> id],
                   draw, innerWidth, innerHeight))
  /\ home' = [home EXCEPT !.selectedFile = NoFile, !.showPrompt = FALSE,
                          !.loading = FALSE]
  /\ localStorage' = SaveCollectionEffect(localStorage, "wall-pictures", pictures')
  /\ frames' = [frames EXCEPT !.picture = Append(@, IdleFrame)]
  /\ UNCHANGED <<pc, innerWidth, innerHeight, saved, queued, windows,
                 wallSettings, attached, downs, server, upLost>>

\* A reader.onerror that sets the error and leaves loading as it is.
ReaderFailsKeepsLoading ==
  /\ Ready
  /\ \E j \in InFlight("read") : pending' = Settled(j)
  /\ home' = [home EXCEPT !.error = "Failed to read image file"]
  /\ UNCHANGED <<pc, innerWidth, innerHeight, localStorage, saved, queued,
                 pictures, windows, wallSettings, frames, attached, downs,
                 server, upLost>>

\* reader.onerror of handleUpload.
ReaderFails ==
  /\ Ready
  /\ \E j \in InFlight("read") : pending' = Settled(j)
  /\ home' = [home EXCEPT !.error = "Failed to read image file",
                          !.loading = FALSE]
  /\ UNCHANGED <<pc, innerWidth, innerHeight, localStorage, saved, queued,
                 pictures, windows, wallSettings, frames, attached, downs, server, upLost>>

\* The floating window button, or "Add Window" of the empty wall.
OpenWindowDialog ==
  /\ Ready /\ NoOverlay
  /\ home' = [home EXCEPT !.showWindowDialog = TRUE]
  /\ UNCHANGED <<pc, innerWidth, innerHeight, localStorage, saved, queued,
                 pictures, windows, wallSettings, pending, frames, attached, downs, server, upLost>>

SelectWindowStyle(style) ==
  /\ Ready /\ home.showWindowDialog
  /\ home' = [home EXCEPT !.selectedWindowStyle = style]
  /\ UNCHANGED <<pc, innerWidth, innerHeight, localStorage, saved, queued,
                 pictures, windows, wallSettings, pending, frames, attached, downs, server, upLost>>

CloseWindowDialog ==
  /\ Ready /\ home.showWindowDialog
  /\ home' = [home EXCEPT !.showWindowDialog = FALSE]
  /\ UNCHANGED <<pc, innerWidth, innerHeight, localStorage, saved, queued,
                 pictures, windows, wallSettings, pending, frames, attached, downs, server, upLost>>

\* A handleAddWindow that puts the new window first: [newWindow, ...prev].
AddWindowFirst(id, draw) ==
  /\ Ready /\ home.showWindowDialog
  /\ Len(pictures) + Len(windows) < MaxEntities
  /\ windows' = <<Placed([id |-> id, style |-> home.selectedWindowStyle], draw,
                         innerWidth, innerHeight)>> \o windows
  /\ home' = [home EXCEPT !.showWindowDialog = FALSE]
  /\ localStorage' = SaveCollectionEffect(localStorage, "wall-windows", windows')
  /\ frames' = [frames EXCEPT !.window = <<IdleFrame>> \o @]
  /\ UNCHANGED <<pc, innerWidth, innerHeight, saved, queued, pictures,
                 wallSettings, pending, attached, downs, server, upLost>>

\* handleAddWindow
AddWindow(id, draw) ==
  /\ Ready /\ home.showWindowDialog
  /\ Len(pictures) + Len(windows) < MaxEntities
  /\ windows' = Append(windows,
       Placed([id |-> id, style |-> home.selectedWindowStyle], draw,
              innerWidth, innerHeight))
  /\ home' = [home EXCEPT !.showWindowDialog = FALSE]
  /\ localStorage' = SaveCollectionEffect(localStorage, "wall-windows", windows')
  /\ frames' = [frames EXCEPT !.window = Append(@, IdleFrame)]
  /\ UNCHANGED <<pc, innerWidth, innerHeight, saved, queued, pictures,
                 wallSettings, pending, attached, downs, server, upLost>>

OpenSettings ==
  /\ Ready /\ NoOverlay
  /\ home' = [home EXCEPT !.showSettings = TRUE]
  /\ UNCHANGED <<pc, innerWidth, innerHeight, localStorage, saved, queued,
                 pictures, windows, wallSettings, pending, frames, attached, downs, server, upLost>>

CloseSettings ==
  /\ Ready /\ home.showSettings
  /\ home' = [home EXCEPT !.showSettings = FALSE]
  /\ UNCHANGED <<pc, innerWidth, innerHeight, localStorage, saved, queued,
                 pictures, windows, wallSettings, pending, frames, attached, downs, server, upLost>>

\* setWallSettings({ [field]: value }): the settings are replaced, not merged.
SetWallSettingAlone(field, value) ==
  /\ Ready /\ home.showSettings
  /\ wallSettings' = [f \in {field} |-> value]
  /\ localStorage' = SaveSettingsEffect(localStorage, wallSettings')
  /\ UNCHANGED <<pc, innerWidth, innerHeight, saved, queued, pictures, windows,
                 home, pending, frames, attached, downs, server, upLost>>

\* setWallSettings((prev) => ({ ...prev, [field]: value })), from the colour
\* inputs, the presets and the texture buttons.
SetWallSetting(field, value) ==
  /\ Ready /\ home.showSettings
  /\ wallSettings' = With(wallSettings, field, value)
  /\ localStorage' = SaveSettingsEffect(localStorage, wallSettings')
  /\ UNCHANGED <<pc, innerWidth, innerHeight, saved, queued, pictures, windows,
                 home, pending, frames, attached, downs, server, upLost>>

\* A frame unmounts: React runs the cleanup its gesture effect returned.
UnmountCleanup(registry, f) ==
  IF f.cleanup
    THEN [mousemove |-> registry.mousemove - 1, mouseup |-> registry.mouseup - 1]
    ELSE registry

\* window after the frames of the entities with this id unmounted (every
\* frame when all is TRUE), i being the next frame to look at.
RECURSIVE UnmountOnWindow(_, _, _, _, _, _)
UnmountOnWindow(registry, fs, coll, id, all, i) ==
  IF i > Len(coll) THEN registry
  ELSE UnmountOnWindow(IF all \/ coll[i].id = id
                         THEN UnmountCleanup(registry, fs[i])
                         ELSE registry,
                       fs, coll, id, all, i + 1)

\* A handleClearAll that does not ask.
ClearAllUnasked(confirmed) ==
  /\ Ready /\ home.showSettings
  /\ pictures' = <<>>
  /\ windows' = <<>>
  /\ frames' = NoFrames
  /\ attached' = NoListeners
  /\ localStorage' = [localStorage EXCEPT !["wall-pictures"] = Absent,
                                          !["wall-windows"] = Absent]
  /\ UNCHANGED <<pc, innerWidth, innerHeight, saved, queued, wallSettings,
                 home, pending, downs, server, upLost>>

\* handleClearAll: nothing happens when the confirm is declined.  Every
\* frame unmounts, which runs the cleanup of its gesture effect.
ClearAll(confirmed) ==
  /\ Ready /\ home.showSettings
  /\ IF confirmed
       THEN /\ pictures' = <<>>
            /\ windows' = <<>>
            /\ frames' = NoFrames
            /\ attached' =
                 UnmountOnWindow(
                   UnmountOnWindow(attached, frames.picture, pictures, "", TRUE, 1),
                   frames.window, windows, "", TRUE, 1)
            /\ localStorage' =
                 SaveCollectionEffect(
                   SaveCollectionEffect(
                     [localStorage EXCEPT !["wall-pictures"] = Absent,
                                          !["wall-windows"] = Absent],
                     "wall-pictures", pictures'),
                   "wall-windows", windows')
       ELSE UNCHANGED <<pictures, windows, frames, attached, localStorage>>
  /\ UNCHANGED <<pc, innerWidth, innerHeight, saved, queued, wallSettings,
                 home, pending, downs, server, upLost>>

\* A page with a resize listener that brings every entity back inside the
\* new viewport.
ResizeViewportClamps(vp) ==
  LET clamped(coll) ==
        [i \in 1..Len(coll) |->
           With(With(coll[i], "x", Max(0, Min(coll[i].x, vp[1] - coll[i].width))),
                "y", Max(0, Min(coll[i].y, vp[2] - coll[i].height)))]
  IN  /\ Ready
      /\ <<innerWidth, innerHeight>> # vp
      /\ innerWidth' = vp[1]
      /\ innerHeight' = vp[2]
      /\ pictures' = clamped(pictures)
      /\ windows' = clamped(windows)
      /\ localStorage' =
           SaveCollectionEffect(
             SaveCollectionEffect(localStorage, "wall-pictures", pictures'),
             "wall-windows", windows')
      /\ UNCHANGED <<pc, saved, queued, wallSettings, home, pending, frames,
                     attached, downs, server, upLost>>

\* The browser window is resized: nothing of the page listens to it.
ResizeViewport(vp) ==
  /\ Ready
  /\ <<innerWidth, innerHeight>> # vp
  /\ innerWidth' = vp[1]
  /\ innerHeight' = vp[2]
  /\ UNCHANGED <<pc, localStorage, saved, queued, pictures, windows,
                 wallSettings, home, pending, frames, attached, downs, server, upLost>>

\* ------------------------------------------------------------------ frames
Coll(kind) == IF kind = "picture" THEN pictures ELSE windows

\* The padding of the wall container ("p-8 sm:p-12"): the offset of the
\* frames' positioning parent from the viewport's corner.
WallPadding(vw) == IF vw >= SM_BREAKPOINT THEN PADDING_SM_P12 ELSE PADDING_P8

\* frameRef.current.getBoundingClientRect(): left and top.
RectLeft(e, vw) == WallPadding(vw) + e.x
RectTop(e, vw) == WallPadding(vw) + e.y

\* The pointer is over the frame of e.
Inside(p, e, vw) ==
  /\ RectLeft(e, vw) <= p[1] /\ p[1] <= RectLeft(e, vw) + e.width
  /\ RectTop(e, vw) <= p[2] /\ p[2] <= RectTop(e, vw) + e.height

\* Frames paint in document order: the windows, then the pictures, each
\* collection in its own order.  The event goes to the frame on top.
Covers(kind2, j, kind, i) ==
  \/ kind = "window" /\ kind2 = "picture"
  \/ kind = kind2 /\ j > i

Hit(kind, i, p) ==
  /\ i \in 1..Len(Coll(kind))
  /\ Inside(p, Coll(kind)[i], innerWidth)
  /\ \A kind2 \in Kinds : \A j \in 1..Len(Coll(kind2)) :
       Covers(kind2, j, kind, i) => ~Inside(p, Coll(kind2)[j], innerWidth)

\* A gesture effect that returns no cleanup: a listener, once added, stays.
GestureEffectNoCleanup(f) ==
  IF ~f.isDragging /\ ~f.isResizing
    THEN f
    ELSE [f EXCEPT !.moveListeners = @ + 1, !.upListeners = @ + 1]

\* The gesture effect of a frame, run after a render that changed one of its
\* dependencies: the cleanup of the previous run removes the listeners that
\* run had added, then the listeners are added when a gesture is on.
GestureEffect(f) ==
  LET cleaned == IF f.cleanup
                   THEN [f EXCEPT !.moveListeners = @ - 1,
                                  !.upListeners = @ - 1, !.cleanup = FALSE]
                   ELSE f
  IN  IF ~f.isDragging /\ ~f.isResizing
        THEN cleaned
        ELSE [cleaned EXCEPT !.moveListeners = @ + 1, !.upListeners = @ + 1,
                             !.cleanup = TRUE]

\* handleMouseDown of a frame: a pointer-down whose target is neither in the
\* resize handle nor in a button.
StartDrag(f, e, p, vw) ==
  [f EXCEPT !.isDragging = TRUE,
            !.dragStart = [x |-> p[1] - RectLeft(e, vw),
                           y |-> p[2] - RectTop(e, vw)]]

\* handleResizeStart without stopPropagation and without the handle test in
\* handleMouseDown: the pointer-down reaches both handlers.
StartResizeAndDrag(f, e, p) ==
  [f EXCEPT !.isResizing = TRUE, !.isDragging = TRUE,
            !.resizeStart = [x |-> p[1], y |-> p[2],
                             width |-> e.width, height |-> e.height]]

\* handleResizeStart: a pointer-down on the resize handle; stopPropagation
\* keeps it from the frame's handleMouseDown.
StartResize(f, e, p) ==
  [f EXCEPT !.isResizing = TRUE,
            !.resizeStart = [x |-> p[1], y |-> p[2],
                             width |-> e.width, height |-> e.height]]

\* A handleMouseUp that forgets setIsResizing(false).
EndGestureDragOnly(f) == [f EXCEPT !.isDragging = FALSE]

\* handleMouseUp
EndGesture(f) == [f EXCEPT !.isDragging = FALSE, !.isResizing = FALSE]

\* A drag that is kept from the right edge only.
DragXNoFloor(f, e, p, vw) == Min(p[1] - f.dragStart.x, vw - e.width)

\* A resize that is kept above the minimum only.
ResizeWidthNoCeiling(f, p) ==
  Max(MIN_SIZE, f.resizeStart.width + (p[1] - f.resizeStart.x))

\* handleMouseMove while dragging: the position it commits.
DragX(f, e, p, vw) == Max(0, Min(p[1] - f.dragStart.x, vw - e.width))

\* A drag that adds the pointer's offset to the position the entity has.
DragYFromPosition(f, e, p, vh) ==
  Max(0, Min(e.y + (p[2] - f.dragStart.y), vh - e.height))

DragY(f, e, p, vh) == Max(0, Min(p[2] - f.dragStart.y, vh - e.height))

\* A width computed from the pointer's y.
ResizeWidthFromY(f, p) ==
  Max(MIN_SIZE, Min(MAX_SIZE, f.resizeStart.width + (p[2] - f.resizeStart.y)))

\* handleMouseMove while resizing: the size it commits.
ResizeWidth(f, p) ==
  Max(MIN_SIZE, Min(MAX_SIZE, f.resizeStart.width + (p[1] - f.resizeStart.x)))

\* A height computed from the pointer's x.
ResizeHeightFromX(f, p) ==
  Max(MIN_SIZE, Min(MAX_SIZE, f.resizeStart.height + (p[1] - f.resizeStart.x)))

\* A height that is kept below the maximum only.
ResizeHeightNoFloor(f, p) ==
  Min(MAX_SIZE, f.resizeStart.height + (p[2] - f.resizeStart.y))

\* handleMouseMove while resizing: the height it commits.
ResizeHeight(f, p) ==
  Max(MIN_SIZE, Min(MAX_SIZE, f.resizeStart.height + (p[2] - f.resizeStart.y)))

\* handleMouseMove of one frame, applied to the collection as it is when the
\* update runs; f and e are the state and the props the listener closed over.
MoveCommit(coll, f, e, p, vw, vh) ==
  IF f.isDragging
    THEN UpdatePosition(coll, e.id, DragX(f, e, p, vw), DragY(f, e, p, vh))
  ELSE IF f.isResizing
    THEN UpdateSize(coll, e.id, ResizeWidth(f, p), ResizeHeight(f, p))
  ELSE coll

\* A mousemove on window: every attached move listener runs once, i being
\* the frames not yet served.
RECURSIVE MoveAll(_, _, _, _, _, _, _)
MoveAll(coll, fs, props, i, p, vw, vh) ==
  IF i > Len(props) THEN coll
  ELSE MoveAll(IF fs[i].moveListeners > 0
                 THEN MoveCommit(coll, fs[i], props[i], p, vw, vh)
                 ELSE coll,
               fs, props, i + 1, p, vw, vh)

\* After the render: the gesture effect runs again in each frame whose
\* entity object was replaced, that is whose id a listener has committed to.
EffectsAfterMove(fs, props) ==
  LET touched == {props[j].id : j \in {k \in 1..Len(fs) : fs[k].moveListeners > 0}}
  IN  [i \in 1..Len(fs) |->
         IF props[i].id \in touched THEN GestureEffect(fs[i]) ELSE fs[i]]

\* A mouseup on window: every attached up listener runs, and the effect of
\* each frame whose state changed runs again.
UpAll(fs) ==
  [i \in 1..Len(fs) |->
     IF fs[i].upListeners > 0 /\ EndGesture(fs[i]) # fs[i]
       THEN GestureEffect(EndGesture(fs[i]))
       ELSE fs[i]]

Listening(fs) == \E i \in 1..Len(fs) : fs[i].moveListeners > 0

\* The listeners the frames fs hold on window, i being the next frame to count.
RECURSIVE Held(_, _)
Held(fs, i) ==
  IF i > Len(fs) THEN NoListeners
  ELSE [mousemove |-> fs[i].moveListeners + Held(fs, i + 1).mousemove,
        mouseup |-> fs[i].upListeners + Held(fs, i + 1).mouseup]

\* window after the gesture effects took the frames from before to after:
\* each removeEventListener and addEventListener of theirs is on window.
EffectsOnWindow(registry, before, after) ==
  [mousemove |-> registry.mousemove
                   + Held(after.picture, 1).mousemove + Held(after.window, 1).mousemove
                   - Held(before.picture, 1).mousemove - Held(before.window, 1).mousemove,
   mouseup |-> registry.mouseup
                 + Held(after.picture, 1).mouseup + Held(after.window, 1).mouseup
                 - Held(before.picture, 1).mouseup - Held(before.window, 1).mouseup]

\* A pointer-down on the frame of entity i, outside its handle and buttons.
MouseDownFrame(kind, i, p) ==
  /\ Ready /\ NoOverlay /\ Hit(kind, i, p)
  /\ downs < MaxGestures
  /\ downs' = downs + 1
  /\ frames' = [frames EXCEPT ![kind][i] =
                  GestureEffect(StartDrag(@, Coll(kind)[i], p, innerWidth))]
  /\ attached' = EffectsOnWindow(attached, frames, frames')
  /\ UNCHANGED <<pc, innerWidth, innerHeight, localStorage, saved, queued,
                 pictures, windows, wallSettings, home, pending, server>>
  /\ upLost' = FALSE

\* A pointer-down on the resize handle of entity i.
MouseDownHandle(kind, i, p) ==
  /\ Ready /\ NoOverlay /\ Hit(kind, i, p)
  /\ downs < MaxGestures
  /\ downs' = downs + 1
  /\ frames' = [frames EXCEPT ![kind][i] =
                  GestureEffect(StartResize(@, Coll(kind)[i], p))]
  /\ attached' = EffectsOnWindow(attached, frames, frames')
  /\ UNCHANGED <<pc, innerWidth, innerHeight, localStorage, saved, queued,
                 pictures, windows, wallSettings, home, pending, server>>
  /\ upLost' = FALSE

\* The frames that stay mounted when the entities with this id go, i being
\* the next frame to look at.
RECURSIVE Unmount(_, _, _, _)
Unmount(fs, coll, id, i) ==
  IF i > Len(coll) THEN <<>>
  ELSE (IF coll[i].id # id THEN <<fs[i]>> ELSE <<>>)
         \o Unmount(fs, coll, id, i + 1)

\* A click on the remove button of entity i: its mousedown stops at the
\* button, its click calls onRemove.
RemoveClick(kind, i) ==
  /\ Ready /\ NoOverlay
  /\ i \in 1..Len(Coll(kind))
  /\ LET id == Coll(kind)[i].id
     IN  /\ frames' = [frames EXCEPT ![kind] = Unmount(@, Coll(kind), id, 1)]
         /\ attached' = UnmountOnWindow(attached, frames[kind], Coll(kind),
                                        id, FALSE, 1)
         /\ IF kind = "picture"
              THEN /\ pictures' = Remove(pictures, id)
                   /\ localStorage' = SaveCollectionEffect(
                        localStorage, "wall-pictures", pictures')
                   /\ UNCHANGED windows
              ELSE /\ windows' = Remove(windows, id)
                   /\ localStorage' = SaveCollectionEffect(
                        localStorage, "wall-windows", windows')
                   /\ UNCHANGED pictures
  /\ UNCHANGED <<pc, innerWidth, innerHeight, saved, queued, wallSettings,
                 home, pending, downs, server, upLost>>

\* A mousemove on window at p.
MouseMove(p) ==
  /\ Ready
  /\ Listening(frames.picture) \/ Listening(frames.window)
  /\ pictures' = MoveAll(pictures, frames.picture, pictures, 1, p,
                         innerWidth, innerHeight)
  /\ windows' = MoveAll(windows, frames.window, windows, 1, p,
                        innerWidth, innerHeight)
  /\ frames' = [picture |-> EffectsAfterMove(frames.picture, pictures),
                window |-> EffectsAfterMove(frames.window, windows)]
  /\ localStorage' =
       LET s1 == IF Listening(frames.picture)
                   THEN SaveCollectionEffect(localStorage, "wall-pictures",
                                             pictures')
                   ELSE localStorage
       IN  IF Listening(frames.window)
             THEN SaveCollectionEffect(s1, "wall-windows", windows')
             ELSE s1
  /\ attached' = EffectsOnWindow(attached, frames, frames')
  /\ UNCHANGED <<pc, innerWidth, innerHeight, saved, queued, wallSettings,
                 home, pending, downs, server, upLost>>

\* The button goes up while the pointer is outside the browser window: no
\* mouseup is dispatched, and no listener runs.
PointerUpLost ==
  /\ Ready
  /\ Listening(frames.picture) \/ Listening(frames.window)
  /\ ~upLost
  /\ upLost' = TRUE
  /\ UNCHANGED <<pc, innerWidth, innerHeight, localStorage, saved, queued,
                 pictures, windows, wallSettings, home, pending, frames,
                 attached, downs, server>>

\* A mouseup on window.
MouseUp ==
  /\ Ready
  /\ Listening(frames.picture) \/ Listening(frames.window)
  /\ frames' = [picture |-> UpAll(frames.picture),
                window |-> UpAll(frames.window)]
  /\ attached' = EffectsOnWindow(attached, frames, frames')
  /\ UNCHANGED <<pc, innerWidth, innerHeight, localStorage, saved, queued,
                 pictures, windows, wallSettings, home, pending, downs, server>>
  /\ upLost' = FALSE

\* ------------------------------------------------------------------ inputs
Draws == RandomDraws \X RandomDraws

Payload(id) == [url |-> "http://x/img.png", prompt |-> "a cat", id |-> id]

Accepted(id) == [kind |-> "json", ok |-> TRUE, data |-> Payload(id)]

\* A 2xx body that carries more than url, prompt and id.
AcceptedWithGeometry ==
  [kind |-> "json", ok |-> TRUE,
   data |-> [url |-> "http://x/img.png", prompt |-> "a cat", id |-> "p2",
             provider |-> "mock", x |-> -40, y |-> 9000, width |-> 900,
             height |-> 10]]
Refused(message) == [kind |-> "json", ok |-> FALSE, data |-> [error |-> message]]
NotJson == [kind |-> "non-json", text |-> "<html>"]
NetworkDown == [kind |-> "network", message |-> "Failed to fetch"]

ImagePng == <<"i", "m", "a", "g", "e", "/", "p", "n", "g">>
TextPlain == <<"t", "e", "x", "t", "/", "p", "l", "a", "i", "n">>

ImageFile ==
  [file |-> "some", name |-> "cat.png", type |-> ImagePng, size |-> 2048,
   dataUrl |-> "data:image/png;base64,cat"]
LimitImageFile ==
  [file |-> "some", name |-> "limit.png", type |-> ImagePng,
   size |-> 10 * 1024 * 1024, dataUrl |-> "data:image/png;base64,limit"]
BigImageFile ==
  [file |-> "some", name |-> "big.png", type |-> ImagePng,
   size |-> 12 * 1024 * 1024, dataUrl |-> "data:image/png;base64,big"]
TextFile ==
  [file |-> "some", name |-> "notes.txt", type |-> TextPlain, size |-> 2048,
   dataUrl |-> "data:text/plain;base64,notes"]

\* The files the user may pick in the file input.
Files == {ImageFile, LimitImageFile, BigImageFile, TextFile}

\* What the gateway may answer to one request.
GatewayResponses ==
  {Accepted(id) : id \in GatewayIds}
    \cup {AcceptedWithGeometry}
    \cup {Refused("rate limit exceeded"), Refused(""), NotJson, NetworkDown}

\* ------------------------------------------------------------------ steps
Startup ==
  \/ \E rnd \in [1..MaxEntities -> Draws] : LoadEffect(rnd)
  \/ InitialSaveEffects
  \/ Rerender
  \/ Reload

AddPicture(prompts, files, responses, draws) ==
  \/ OpenPrompt
  \/ CancelPrompt
  \/ \E mode \in {"generate", "upload"} : SetAddMode(mode)
  \/ \E text \in prompts : TypePrompt(text)
  \/ \E file \in files : FileSelect(file)
  \/ ChangeFile
  \/ Submit
  \/ \E response \in responses, draw \in draws : FetchSettles(response, draw)
  \/ \E id \in UploadIds, draw \in draws : ReaderLoads(id, draw)
  \/ ReaderFails

AddWindows(styles, draws) ==
  \/ OpenWindowDialog
  \/ \E style \in styles : SelectWindowStyle(style)
  \/ CloseWindowDialog
  \/ \E id \in WindowIds, draw \in draws : AddWindow(id, draw)

Settings ==
  \/ OpenSettings
  \/ CloseSettings
  \/ SetWallSetting("backgroundColor", "#DBEAFE")
  \/ SetWallSetting("texture", "brick")
  \/ \E confirmed \in BOOLEAN : ClearAll(confirmed)

Gestures(pointers) ==
  \/ \E kind \in Kinds, i \in 1..MaxEntities, p \in pointers :
       MouseDownFrame(kind, i, p)
  \/ \E kind \in Kinds, i \in 1..MaxEntities, p \in pointers :
       MouseDownHandle(kind, i, p)
  \/ \E kind \in Kinds, i \in 1..MaxEntities : RemoveClick(kind, i)
  \/ \E p \in pointers : MouseMove(p)
  \/ MouseUp

\* ------------------------------------------------------------------ the page
\* The whole page, opened on what an earlier visit left in localStorage.
Next ==
  \/ Startup
  \/ AddPicture({"a cat"}, Files, GatewayResponses, {<<3, 3>>})
  \/ AddWindows({"arched"}, {<<3, 0>>})
  \/ Settings
  \/ \E kind \in Kinds, i \in 1..MaxEntities : RemoveClick(kind, i)

Spec == Init /\ [][Next]_vars

\* ------------------------------------------------------------------ the wall
\* localStorage as an earlier visit wrote it, with the wall that visit left.
WrittenStorage(pics, wins) == SaveAll(NothingRead, pics, wins, defaultSettings)

PlacedPicture(id, draw, vp) == Placed(Payload(id), draw, vp[1], vp[2])
PlacedWindow(id, draw, vp) ==
  Placed([id |-> id, style |-> "rectangular"], draw, vp[1], vp[2])

\* The gestures on a wall of one picture and one window.
WallInit ==
  \E vp \in Viewports :
    Mounted(WrittenStorage(<<PlacedPicture("p1", <<0, 0>>, vp)>>,
                           <<PlacedWindow("window-1", <<3, 3>>, vp)>>), vp)

WallPointers == {<<100, 100>>, <<600, 400>>, <<300, 150>>}

WallNext ==
  \/ Startup
  \/ CancelPrompt
  \/ Gestures(WallPointers)
  \/ \E vp \in Viewports : ResizeViewport(vp)

WallSpec == WallInit /\ [][WallNext]_vars

\* The same wall, the pointer going from (100, 100) by (400, -50).
ScenarioPointers == {<<100, 100>>, <<500, 50>>}

ScenarioNext ==
  \/ Startup
  \/ CancelPrompt
  \/ Gestures(ScenarioPointers)

ScenarioSpec == WallInit /\ [][ScenarioNext]_vars

\* ------------------------------------------------------------------ the store
\* Every mutation of the store, on a wall that starts with one picture.
StoreInit ==
  \E vp \in Viewports :
    Mounted(WrittenStorage(<<PlacedPicture("p1", <<0, 0>>, vp)>>, <<>>), vp)

StorePointers == {<<100, 100>>, <<300, 150>>}

StoreNext ==
  \/ Startup
  \/ CancelPrompt
  \/ OpenWindowDialog
  \/ AddWindow("window-1", <<3, 3>>)
  \/ Gestures(StorePointers)
  \/ Settings

StoreSpec == StoreInit /\ [][StoreNext]_vars

\* The same wall and pointers, the button going up outside the browser
\* window at any time of a gesture.
LostUpNext ==
  \/ Startup
  \/ CancelPrompt
  \/ Gestures(ScenarioPointers)
  \/ PointerUpLost

LostUpSpec == WallInit /\ [][LostUpNext]_vars

\* ------------------------------------------------------------------ the request
\* Gestures on a wall of one picture while a second picture is generated.
RequestNext ==
  \/ Startup
  \/ CancelPrompt
  \/ OpenPrompt
  \/ TypePrompt("a cat")
  \/ Submit
  \/ \E response \in {Accepted("p2"), NetworkDown} :
       FetchSettles(response, <<3, 3>>)
  \/ Gestures(StorePointers)

RequestSpec == StoreInit /\ [][RequestNext]_vars

\* ------------------------------------------------------------------ the sizes
\* A picture is generated and a window added next to p1, and the three are
\* dragged, resized and removed, the pointer going between (100, 100) and
\* (600, 400).
SizeNext ==
  \/ Startup
  \/ CancelPrompt
  \/ OpenPrompt
  \/ TypePrompt("a cat")
  \/ Submit
  \/ FetchSettles(Accepted("p2"), <<3, 3>>)
  \/ OpenWindowDialog
  \/ AddWindow("window-1", <<3, 3>>)
  \/ Gestures({<<100, 100>>, <<600, 400>>})

SizeSpec == StoreInit /\ [][SizeNext]_vars

\* ------------------------------------------------------------------ the adds
\* Pictures are generated and uploaded on a wall that starts empty.  Every
\* fetch and every FileReader read settles: the fetch resolves or rejects, the
\* reader fires onload or onerror.
AddInit == Mounted(NothingRead, <<1000, 800>>)

AddNext ==
  \/ Startup
  \/ AddPicture({"a cat"}, {ImageFile, TextFile},
                {Accepted("p1"), Refused(""), NotJson, NetworkDown}, {<<3, 3>>})

AddSpec ==
  /\ AddInit /\ [][AddNext]_vars
  /\ WF_vars(\E response \in {Accepted("p1"), Refused(""), NotJson, NetworkDown} :
               FetchSettles(response, <<3, 3>>))
  /\ WF_vars((\E id \in UploadIds : ReaderLoads(id, <<3, 3>>)) \/ ReaderFails)

\* ------------------------------------------------------------------ the callbacks
\* The render after a callback of Home replaced the entities with this id:
\* the gesture effect of their frames runs again.
EffectsAfterCallback(fs, coll, id) ==
  [i \in 1..Len(fs) |-> IF coll[i].id = id THEN GestureEffect(fs[i]) ELSE fs[i]]

\* onPositionChange of a frame: updatePicturePosition / updateWindowPosition.
OnPositionChange(kind, id, x, y) ==
  /\ Ready
  /\ IF kind = "picture"
       THEN /\ pictures' = UpdatePosition(pictures, id, x, y)
            /\ localStorage' = SaveCollectionEffect(localStorage, "wall-pictures",
                                                    pictures')
            /\ UNCHANGED windows
       ELSE /\ windows' = UpdatePosition(windows, id, x, y)
            /\ localStorage' = SaveCollectionEffect(localStorage, "wall-windows",
                                                    windows')
            /\ UNCHANGED pictures
  /\ frames' = [frames EXCEPT ![kind] = EffectsAfterCallback(@, Coll(kind), id)]
  /\ attached' = EffectsOnWindow(attached, frames, frames')
  /\ UNCHANGED <<pc, innerWidth, innerHeight, saved, queued, wallSettings,
                 home, pending, downs, server, upLost>>

\* onSizeChange of a frame: updatePictureSize / updateWindowSize.
OnSizeChange(kind, id, width, height) ==
  /\ Ready
  /\ IF kind = "picture"
       THEN /\ pictures' = UpdateSize(pictures, id, width, height)
            /\ localStorage' = SaveCollectionEffect(localStorage, "wall-pictures",
                                                    pictures')
            /\ UNCHANGED windows
       ELSE /\ windows' = UpdateSize(windows, id, width, height)
            /\ localStorage' = SaveCollectionEffect(localStorage, "wall-windows",
                                                    windows')
            /\ UNCHANGED pictures
  /\ frames' = [frames EXCEPT ![kind] = EffectsAfterCallback(@, Coll(kind), id)]
  /\ attached' = EffectsOnWindow(attached, frames, frames')
  /\ UNCHANGED <<pc, innerWidth, innerHeight, saved, queued, wallSettings,
                 home, pending, downs, server, upLost>>

\* onRemove of a frame: removePicture / removeWindow.
OnRemove(kind, id) ==
  /\ Ready
  /\ IF kind = "picture"
       THEN /\ pictures' = Remove(pictures, id)
            /\ localStorage' = SaveCollectionEffect(localStorage, "wall-pictures",
                                                    pictures')
            /\ UNCHANGED windows
       ELSE /\ windows' = Remove(windows, id)
            /\ localStorage' = SaveCollectionEffect(localStorage, "wall-windows",
                                                    windows')
            /\ UNCHANGED pictures
  /\ frames' = [frames EXCEPT ![kind] = Unmount(@, Coll(kind), id, 1)]
  /\ attached' = UnmountOnWindow(attached, frames[kind], Coll(kind), id, FALSE, 1)
  /\ UNCHANGED <<pc, innerWidth, innerHeight, saved, queued, wallSettings,
                 home, pending, downs, server, upLost>>

\* A wall of three pictures and one window, as an earlier visit left it.
CallbackInit ==
  \E vp \in Viewports :
    Mounted(WrittenStorage(
              <<PlacedPicture("p1", <<0, 0>>, vp),
                Placed([url |-> ImageFile.dataUrl, prompt |-> ImageFile.name,
                        id |-> "upload-1"], <<3, 3>>, vp[1], vp[2]),
                PlacedPicture("p2", <<3, 0>>, vp)>>,
              <<PlacedWindow("window-1", <<3, 3>>, vp)>>), vp)

\* The ids the callbacks are called with: those of the wall and one that no
\* entity has.
CallIds == {"p1", "upload-1", "p2", "window-1", "p9"}

\* The callbacks of Home, called with a position or a size of (200, 300).
CallbackNext ==
  \/ Startup
  \/ CancelPrompt
  \/ \E kind \in Kinds, id \in CallIds : OnPositionChange(kind, id, 200, 300)
  \/ \E kind \in Kinds, id \in CallIds : OnSizeChange(kind, id, 200, 300)
  \/ \E kind \in Kinds, id \in CallIds : OnRemove(kind, id)

CallbackSpec == CallbackInit /\ [][CallbackNext]_vars

\* Adds, removes, updates and reloads on the wall of three pictures and one
\* window.  The id of an added entity is one that no entity of the wall has.
OrderNext ==
  \/ Startup
  \/ CancelPrompt
  \/ TypePrompt("a cat")
  \/ Submit
  \/ \E response \in {Accepted("p3"), NetworkDown} :
       /\ \A i \in 1..Len(pictures) : pictures[i].id # "p3"
       /\ FetchSettles(response, <<3, 3>>)
  \/ OpenWindowDialog
  \/ /\ \A i \in 1..Len(windows) : windows[i].id # "window-2"
     /\ AddWindow("window-2", <<3, 0>>)
  \/ \E id \in {"upload-1", "window-1"} : \E kind \in Kinds :
       OnPositionChange(kind, id, 200, 300)
  \/ \E kind \in Kinds : OnSizeChange(kind, "p2", 200, 300)
  \/ \E kind \in Kinds, id \in CallIds : OnRemove(kind, id)

OrderSpec == CallbackInit /\ [][OrderNext]_vars

\* The callbacks of Home called on the picture p1 while a fetch or a read is
\* in flight; every fetch and every read succeeds, and the page is not
\* reloaded.
PendingNext ==
  \/ \E rnd \in [1..MaxEntities -> Draws] : LoadEffect(rnd)
  \/ InitialSaveEffects
  \/ Rerender
  \/ OpenPrompt
  \/ \E mode \in {"generate", "upload"} : SetAddMode(mode)
  \/ TypePrompt("a cat")
  \/ FileSelect(ImageFile)
  \/ Submit
  \/ /\ home.loading
     /\ \/ OnPositionChange("picture", "p1", 200, 300)
        \/ OnSizeChange("picture", "p1", 200, 300)
        \/ OnRemove("picture", "p1")
  \/ FetchSettles(Accepted("p2"), <<3, 3>>)
  \/ ReaderLoads("upload-1", <<3, 3>>)

PendingSpec == StoreInit /\ [][PendingNext]_vars

\* ------------------------------------------------------------------ the image service
\* The repository holds two versions of lib/image-service.ts: the one whose
\* getImageConfig catches its own error and falls back to the mock provider
\* (part_000), and the one whose getImageConfig throws (part_001).

\* process.env.NAME: undefined, or a string.
Undefined == [defined |-> FALSE]
Str(text) == [defined |-> TRUE, value |-> text]

\* a is truthy: neither undefined nor the empty string.
Truthy(a) == a.defined /\ a.value # ""

\* a || b
Or(a, b) == IF Truthy(a) THEN a ELSE b

Returned(value, calls) == [threw |-> FALSE, value |-> value, calls |-> calls]
Thrown(message, calls) == [threw |-> TRUE, message |-> message, calls |-> calls]

\* getImageConfig of part_001: the provider defaults to dalle, the key may be
\* IMAGE_API_KEY, GEMINI_API_KEY or LLM_API_KEY, and the error is thrown to
\* the caller.
getImageConfig_part001(env) ==
  LET provider == Or(env.IMAGE_PROVIDER, Str("dalle")).value
      apiKey == Or(Or(env.IMAGE_API_KEY, env.GEMINI_API_KEY), env.LLM_API_KEY)
  IN  IF provider # "mock" /\ ~Truthy(apiKey)
        THEN Thrown("IMAGE_API_KEY, GEMINI_API_KEY, or LLM_API_KEY environment variable is required", 0)
        ELSE Returned([provider |-> provider,
                       apiKey |-> Or(apiKey, Str("")).value,
                       baseURL |-> env.IMAGE_BASE_URL], 0)

\* getImageConfig of part_000: the provider defaults to mock, the key may be
\* IMAGE_API_KEY or LLM_API_KEY, and the catch around the body turns the
\* error it throws for a missing key into the mock configuration.
getImageConfig_part000(env) ==
  LET provider == Or(env.IMAGE_PROVIDER, Str("mock")).value
      apiKey == Or(env.IMAGE_API_KEY, env.LLM_API_KEY)
      tried == IF provider # "mock" /\ ~Truthy(apiKey)
                 THEN Thrown("IMAGE_API_KEY or LLM_API_KEY environment variable is required", 0)
                 ELSE Returned([provider |-> provider,
                                apiKey |-> Or(apiKey, Str("")).value,
                                baseURL |-> env.IMAGE_BASE_URL], 0)
  IN  IF tried.threw
        THEN Returned([provider |-> "mock", apiKey |-> "", baseURL |-> Undefined], 0)
        ELSE tried

\* generateMockImage: a placeholder made on the spot, no request goes out.
generateMockImage(prompt, config) ==
  Returned([url |-> "data:image/svg+xml,mock", prompt |-> prompt,
            id |-> "mock-1"], 0)

\* generateDALLEImage: one request to the provider, with the key as bearer.
generateDALLEImage(prompt, config, upstream) ==
  IF ~upstream.ok
    THEN Thrown("DALL-E API error: " \o upstream.status \o " - " \o upstream.text, 1)
  ELSE IF ~Truthy(upstream.url)
    THEN Thrown("No image URL returned from DALL-E API", 1)
  ELSE Returned([url |-> upstream.url.value, prompt |-> prompt,
                 id |-> "dalle-1"], 1)

\* generateCustomImage: IMAGE_BASE_URL is required, then one request to it.
generateCustomImage(prompt, config, upstream) ==
  IF ~Truthy(config.baseURL)
    THEN Thrown("IMAGE_BASE_URL is required for custom image provider", 0)
  ELSE IF ~upstream.ok
    THEN Thrown("Custom Image API error: " \o upstream.status \o " - " \o upstream.text, 1)
  ELSE IF ~Truthy(upstream.url)
    THEN Thrown("No image URL returned from custom image API", 1)
  ELSE Returned([url |-> upstream.url.value, prompt |-> prompt,
                 id |-> "custom-1"], 1)

\* The switch of generateImage on config.provider.
Dispatch(prompt, config, upstream) ==
  CASE config.provider = "dalle" -> generateDALLEImage(prompt, config, upstream)
    [] config.provider = "mock" -> generateMockImage(prompt, config)
    [] config.provider = "custom" -> generateCustomImage(prompt, config, upstream)
    [] OTHER -> Thrown("Unsupported image provider: " \o config.provider, 0)

\* generateImage of part_001: what getImageConfig or the provider throws
\* reaches the caller as it is.
generateImage_part001(prompt, env, upstream) ==
  LET config == getImageConfig_part001(env)
  IN  IF config.threw THEN config ELSE Dispatch(prompt, config.value, upstream)

\* generateImage of part_000: every error is thrown again with the prefix
\* "Image generation failed: ".
generateImage_part000(prompt, env, upstream) ==
  LET config == getImageConfig_part000(env)
      tried == IF config.threw THEN config
               ELSE Dispatch(prompt, config.value, upstream)
  IN  IF tried.threw
        THEN Thrown("Image generation failed: " \o tried.message, tried.calls)
        ELSE tried

\* The server is deployed with one version of the service and one
\* environment; the page is not looked at.
ServiceInit ==
  /\ PageMounted(NothingRead, <<1000, 800>>)
  /\ \E version \in {"part_000", "part_001"} :
     \E env \in [IMAGE_PROVIDER : {Undefined, Str("mock"), Str("dalle"),
                                    Str("custom"), Str("imagen")},
                  IMAGE_API_KEY : {Undefined, Str(""), Str("sk-image")},
                  GEMINI_API_KEY : {Undefined, Str("sk-gemini")},
                  LLM_API_KEY : {Undefined, Str("sk-llm")},
                  IMAGE_BASE_URL : {Undefined, Str("https://sd.local/generate")}] :
       server = [deployed |-> TRUE, version |-> version, env |-> env,
                 outcome |-> [called |-> FALSE]]

\* One call of generateImage.
GenerateImage(prompt, upstream) ==
  /\ server.deployed
  /\ ~server.outcome.called
  /\ server' =
       [server EXCEPT !.outcome =
          [called |-> TRUE,
           result |-> IF server.version = "part_000"
                        THEN generateImage_part000(prompt, server.env, upstream)
                        ELSE generateImage_part001(prompt, server.env, upstream)]]
  /\ UNCHANGED <<pc, innerWidth, innerHeight, localStorage, saved, queued,
                 pictures, windows, wallSettings, home, pending, frames,
                 attached, downs, upLost>>

\* The provider answers with an image, with a body without one, or refuses.
ServiceNext ==
  \E upstream \in {[ok |-> TRUE, url |-> Str("https://img/1.png")],
                    [ok |-> TRUE, url |-> Undefined],
                    [ok |-> FALSE, status |-> "401", text |-> "invalid api key"]} :
    GenerateImage("a cat", upstream)

ServiceSpec == ServiceInit /\ [][ServiceNext]_vars

\* ------------------------------------------------------------------ Replicate
\* generateReplicateImage of the two versions: the prediction is created, then
\* its status is fetched until it settles.
maxAttempts == 60

ReplicateInit ==
  /\ PageMounted(NothingRead, <<1000, 800>>)
  /\ \E version \in {"part_000", "part_001"} :
       server = [deployed |-> TRUE, version |-> version,
                 call |-> [phase |-> "create", attempts |-> 0]]

\* The POST of the prediction: a non-2xx answer and an answer without an id
\* throw, else the polling starts with attempts = 0.
CreatePrediction(answer) ==
  /\ server.deployed /\ server.call.phase = "create"
  /\ server' =
       [server EXCEPT !.call =
          IF ~answer.ok
            THEN [phase |-> "thrown", attempts |-> 0, last |-> answer,
                  message |-> "Replicate API error (create)"]
          ELSE IF ~Truthy(answer.id)
            THEN [phase |-> "thrown", attempts |-> 0, last |-> answer,
                  message |-> "No prediction ID returned from Replicate API"]
          ELSE [phase |-> "polling", attempts |-> 0, last |-> answer]]
  /\ UNCHANGED <<pc, innerWidth, innerHeight, localStorage, saved, queued,
                 pictures, windows, wallSettings, home, pending, frames,
                 attached, downs, upLost>>

\* The while loop without attempts++.
StatusPollUncounted(answer) ==
  LET n == server.call.attempts
      noUrl == IF server.version = "part_000"
                 THEN "No image URL in Replicate response"
                 ELSE "Replicate prediction timed out or did not complete"
      Throw(message) == [phase |-> "thrown", attempts |-> n, last |-> answer,
                         message |-> message]
  IN  /\ server.deployed /\ server.call.phase = "polling"
      /\ n < maxAttempts
      /\ server' =
           [server EXCEPT !.call =
              IF ~answer.ok THEN Throw("Replicate API error (status)")
              ELSE IF answer.status = "succeeded"
                THEN IF Truthy(answer.imageUrl)
                       THEN [phase |-> "returned", attempts |-> n, last |-> answer,
                             url |-> answer.imageUrl]
                       ELSE Throw(noUrl)
              ELSE IF answer.status \in {"failed", "canceled"}
                THEN Throw("Replicate prediction failed")
              ELSE [phase |-> "polling", attempts |-> n, last |-> answer]]
      /\ UNCHANGED <<pc, innerWidth, innerHeight, localStorage, saved, queued,
                     pictures, windows, wallSettings, home, pending, frames,
                     attached, downs, upLost>>

\* One turn of the while loop: the wait, the GET of the status and what the
\* loop does with the answer (kept in last); imageUrl is
\* statusData.output?.[0] || statusData.output.  When attempts reaches
\* maxAttempts the loop ends and the code after it runs.
StatusPoll(answer) ==
  LET n == server.call.attempts
      timedOut == IF server.version = "part_000"
                    THEN "Replicate prediction timed out after 5 minutes"
                    ELSE "Replicate prediction timed out or did not complete"
      noUrl == IF server.version = "part_000"
                 THEN "No image URL in Replicate response"
                 ELSE "Replicate prediction timed out or did not complete"
      Throw(message) == [phase |-> "thrown", attempts |-> n, last |-> answer,
                         message |-> message]
  IN  /\ server.deployed /\ server.call.phase = "polling"
      /\ n < maxAttempts
      /\ server' =
           [server EXCEPT !.call =
              IF ~answer.ok THEN Throw("Replicate API error (status)")
              ELSE IF answer.status = "succeeded"
                THEN IF Truthy(answer.imageUrl)
                       THEN [phase |-> "returned", attempts |-> n, last |-> answer,
                             url |-> answer.imageUrl]
                       ELSE Throw(noUrl)
              ELSE IF answer.status \in {"failed", "canceled"}
                THEN Throw("Replicate prediction failed")
              ELSE IF n + 1 < maxAttempts
                THEN [phase |-> "polling", attempts |-> n + 1, last |-> answer]
              ELSE [phase |-> "thrown", attempts |-> n + 1, last |-> answer,
                    message |-> timedOut]]
      /\ UNCHANGED <<pc, innerWidth, innerHeight, localStorage, saved, queued,
                     pictures, windows, wallSettings, home, pending, frames,
                     attached, downs, upLost>>

\* What Replicate may answer to the POST and to a GET of the status.
ReplicateNext ==
  \/ \E answer \in {[ok |-> TRUE, id |-> Str("pred-1")],
                     [ok |-> TRUE, id |-> Undefined], [ok |-> FALSE]} :
       CreatePrediction(answer)
  \/ \E answer \in
         {[ok |-> FALSE]}
           \cup [ok : {TRUE}, status : {"starting", "processing", "failed", "canceled"}]
           \cup [ok : {TRUE}, status : {"succeeded"},
                 imageUrl : {Undefined, Str("https://r/1.png")}] :
       StatusPoll(answer)

\* Every fetch of the acquisition settles, and the acquisition goes on.
ReplicateSpec == ReplicateInit /\ [][ReplicateNext]_vars /\ WF_vars(ReplicateNext)

\* ------------------------------------------------------------------ claims
\* The localStorage key of a collection.
EntityKey(kind) == IF kind = "picture" THEN "wall-pictures" ELSE "wall-windows"

\* The collections after the step.
CollAfter(kind) == IF kind = "picture" THEN pictures' ELSE windows'

\* The entities of a sequence.
Entities(coll) == {coll[i] : i \in 1..Len(coll)}

\* A frame with a gesture on.
Busy(f) == f.isDragging \/ f.isResizing

\* C1: after any sequence of add and remove operations on pictures or on
\* windows, no two entities that remain in one collection have the same id.
C1_IdsUnique ==
  \A kind \in Kinds : \A i, j \in 1..Len(Coll(kind)) :
    i # j => Coll(kind)[i].id # Coll(kind)[j].id

\* C2 as the specification words it: every position a drag commits through
\* updatePosition has 0 <= x <= viewportWidth - width and
\* 0 <= y <= viewportHeight - height, whatever the viewport and the entity.
C2_DragWithinViewport ==
  [][\A p \in WallPointers : MouseMove(p) =>
       \A kind \in Kinds : \A i \in 1..Len(Coll(kind)) :
         (frames[kind][i].moveListeners > 0 /\ frames[kind][i].isDragging) =>
           LET e == CollAfter(kind)[i]
           IN  /\ 0 <= e.x /\ e.x <= innerWidth - e.width
               /\ 0 <= e.y /\ e.y <= innerHeight - e.height]_vars

\* C2, amended: every position a drag commits has
\* 0 <= x <= max(0, viewportWidth - width) and
\* 0 <= y <= max(0, viewportHeight - height); an entity wider or taller than
\* the viewport is committed at 0 on that axis.
C2_DragWithinViewportOrAtZero ==
  [][\A p \in WallPointers : MouseMove(p) =>
       \A kind \in Kinds : \A i \in 1..Len(Coll(kind)) :
         (frames[kind][i].moveListeners > 0 /\ frames[kind][i].isDragging) =>
           LET e == CollAfter(kind)[i]
           IN  /\ 0 <= e.x /\ e.x <= Max(0, innerWidth - e.width)
               /\ 0 <= e.y /\ e.y <= Max(0, innerHeight - e.height)]_vars

\* A drag has committed a position at the right edge of a viewport that is
\* wider than the entity.
C2_Witness ==
  /\ Ready
  /\ \E kind \in Kinds : \E i \in 1..Len(Coll(kind)) :
       /\ frames[kind][i].isDragging /\ frames[kind][i].moveListeners > 0
       /\ Coll(kind)[i].x > 0
       /\ Coll(kind)[i].x = innerWidth - Coll(kind)[i].width

\* C3: every size a resize commits through updateSize has
\* 150 <= width <= 500 and 150 <= height <= 500.
C3_ResizeWithinBounds ==
  [][\A p \in WallPointers : MouseMove(p) =>
       \A kind \in Kinds : \A i \in 1..Len(Coll(kind)) :
         (/\ frames[kind][i].moveListeners > 0
          /\ frames[kind][i].isResizing /\ ~frames[kind][i].isDragging) =>
           LET e == CollAfter(kind)[i]
           IN  /\ MIN_SIZE <= e.width /\ e.width <= MAX_SIZE
               /\ MIN_SIZE <= e.height /\ e.height <= MAX_SIZE]_vars

\* A resize has committed a width that the upper bound cut.
C3_Witness ==
  /\ Ready
  /\ \E kind \in Kinds : \E i \in 1..Len(Coll(kind)) :
       /\ frames[kind][i].isResizing /\ ~frames[kind][i].isDragging
       /\ frames[kind][i].resizeStart.width < MAX_SIZE
       /\ Coll(kind)[i].width = MAX_SIZE

\* C4: once a mutation of the store (add, remove, updatePosition, updateSize,
\* setWallSettings, clearAll) is processed, the slot of each non-empty
\* collection holds the serialization of that collection as it is in memory,
\* and the settings slot holds the serialization of the settings in memory.
C4_StorageMirrorsMemory ==
  Ready =>
    /\ \A kind \in Kinds :
         Len(Coll(kind)) > 0 =>
           localStorage[EntityKey(kind)] = StringifyCollection(Coll(kind))
    /\ localStorage["wall-settings"] = StringifySettings(wallSettings)

\* A window was added, a gesture has moved or resized an entity and the
\* settings were changed.
C4_Witness ==
  /\ Ready
  /\ downs > 0
  /\ Len(windows) > 0
  /\ wallSettings.texture = "brick"
  /\ \E i \in 1..Len(pictures) :
       pictures[i].x # 0 \/ pictures[i].width # DEFAULT_PICTURE_SIZE

\* C5: a startup that reads the snapshot the page wrote for a non-empty
\* collection ends with the same entities in the same order, with the same
\* id, position and size, and with the same snapshot in the slot.
C5_RoundTrip ==
  [][(pc = "rendering" /\ pc' = "ready") =>
       \A kind \in Kinds :
         LET item == saved[EntityKey(kind)]
         IN  (/\ item.json = "array"
              /\ Len(item.items) > 0
              /\ \A i \in 1..Len(item.items) :
                   {"x", "y", "width", "height"} \subseteq DOMAIN item.items[i]) =>
               /\ CollAfter(kind) = item.items
               /\ StringifyCollection(CollAfter(kind)) = item
               /\ localStorage'[EntityKey(kind)] = item]_vars

\* The page was opened again on a wall that a gesture had changed, and shows
\* a picture at the left edge.
C5_Witness ==
  /\ Ready
  /\ home.showPrompt
  /\ downs > 0
  /\ Len(windows) > 0
  /\ \E i \in 1..Len(pictures) :
       /\ pictures[i].x = 0
       /\ pictures[i].y # 0 \/ pictures[i].width # DEFAULT_PICTURE_SIZE

\* C6: once the mutation that empties a collection is processed, the slot of
\* that collection is absent from localStorage.
C6_EmptyCollectionHasNoSlot ==
  Ready =>
    \A kind \in Kinds :
      Len(Coll(kind)) = 0 => localStorage[EntityKey(kind)] = Absent

\* The only picture of the wall was removed while a window is on the wall.
C6_Witness ==
  /\ Ready
  /\ Len(pictures) = 0
  /\ Len(windows) > 0
  /\ localStorage["wall-pictures"] = Absent

\* C7: at startup each slot is loaded on its own.  A slot whose text does
\* not parse leaves its state at the default, a slot that parses is loaded
\* with what it stores, and no unparseable slot keeps the page from starting.
C7_SlotsLoadIndependently ==
  [][(pc = "rendering" /\ pc' # "rendering") =>
       /\ \A kind \in Kinds :
            LET item == saved[EntityKey(kind)]
            IN  /\ ParseThrows(item) => CollAfter(kind) = <<>>
                /\ item.json = "array" =>
                     /\ Len(CollAfter(kind)) = Len(item.items)
                     /\ \A i \in 1..Len(item.items) :
                          \A f \in DOMAIN item.items[i] :
                            CollAfter(kind)[i][f] = item.items[i][f]
       /\ ParseThrows(saved["wall-settings"]) => wallSettings' = defaultSettings
       /\ saved["wall-settings"].json = "object" =>
            wallSettings' = saved["wall-settings"].members
       /\ saved["wall-settings"].json # "null" => pc' = "ready"]_vars

\* The load effect has run on an unparseable pictures slot and has loaded
\* the windows and the settings.
C7_Witness ==
  /\ pc = "rendering"
  /\ ParseThrows(saved["wall-pictures"])
  /\ ~queued.pictures.set
  /\ queued.windows.set /\ Len(queued.windows.value) > 0
  /\ queued.wallSettings.set

\* C8: whatever the pointer-down, pointer-move and pointer-up events, no
\* frame has isDragging and isResizing both true.
C8_NeverDraggingAndResizing ==
  \A kind \in Kinds : \A i \in 1..Len(frames[kind]) :
    ~(frames[kind][i].isDragging /\ frames[kind][i].isResizing)

\* C9: a pointer-down on the resize handle of an idle frame puts the frame in
\* Resizing and not in Dragging; a click on the remove button starts no
\* gesture and commits no position and no size.
C9_HandleResizesRemoveOnlyRemoves ==
  [][/\ \A kind \in Kinds : \A i \in 1..MaxEntities : \A p \in WallPointers :
          (MouseDownHandle(kind, i, p) /\ ~Busy(frames[kind][i])) =>
            frames'[kind][i].isResizing /\ ~frames'[kind][i].isDragging
     /\ \A kind \in Kinds : \A i \in 1..MaxEntities :
          RemoveClick(kind, i) =>
            /\ \A k \in Kinds : Entities(CollAfter(k)) \subseteq Entities(Coll(k))
            /\ \A k \in Kinds : Entities(frames'[k]) \subseteq Entities(frames[k])]_vars

\* The picture was removed by a click and the handle of the window was
\* pressed while its frame was idle.
C9_Witness ==
  /\ Ready
  /\ Len(pictures) = 0
  /\ downs = 1
  /\ \E i \in 1..Len(windows) :
       frames.window[i].isResizing /\ ~frames.window[i].isDragging

\* C10: a frame holds one mousemove and one mouseup listener on window while
\* it drags or resizes and none while it is idle, and window holds no
\* listener of a frame that is gone.
C10_ListenersWhileGesture ==
  /\ \A kind \in Kinds : \A i \in 1..Len(frames[kind]) :
       /\ frames[kind][i].moveListeners = IF Busy(frames[kind][i]) THEN 1 ELSE 0
       /\ frames[kind][i].upListeners = IF Busy(frames[kind][i]) THEN 1 ELSE 0
  /\ attached.mousemove =
       Held(frames.picture, 1).mousemove + Held(frames.window, 1).mousemove
  /\ attached.mouseup =
       Held(frames.picture, 1).mouseup + Held(frames.window, 1).mouseup

\* Two gestures were started, the picture went while the window still has
\* its gesture on.
C10_Witness ==
  /\ Ready
  /\ downs = 2
  /\ Len(pictures) = 0
  /\ attached = [mousemove |-> 1, mouseup |-> 1]

\* C11: a pointer-up, wherever the pointer is, takes every frame that drags
\* or resizes back to idle and leaves no listener on window; a pointer-move
\* changes no entity whose frame is idle.
C11_PointerUpEndsGesture ==
  [][/\ MouseUp =>
          /\ \A kind \in Kinds : \A i \in 1..Len(frames'[kind]) :
               ~Busy(frames'[kind][i])
          /\ attached' = NoListeners
          /\ pictures' = pictures /\ windows' = windows
     /\ \A p \in WallPointers : MouseMove(p) =>
          \A kind \in Kinds : \A i \in 1..Len(Coll(kind)) :
            ~Busy(frames[kind][i]) => CollAfter(kind)[i] = Coll(kind)[i]]_vars

\* A gesture has moved or resized the picture and a pointer-up has ended it:
\* every frame is idle while the window still has a gesture to come.
C11_Witness ==
  /\ Ready
  /\ downs = 1
  /\ attached = NoListeners
  /\ Len(windows) > 0
  /\ \E i \in 1..Len(pictures) :
       /\ ~Busy(frames.picture[i])
       /\ frames.picture[i].dragStart # IdleFrame.dragStart
            \/ frames.picture[i].resizeStart # IdleFrame.resizeStart
       /\ pictures[i].x # 0 \/ pictures[i].width # DEFAULT_PICTURE_SIZE

\* C12: when the gateway call fails (the fetch rejects, the body is not
\* JSON, or the status is not 2xx with a JSON error body), no entity is added
\* and localStorage is unchanged, the error message is set (for a non-2xx
\* JSON body with an error text, that text verbatim) and loading is false.
C12_GatewayFailureAddsNothing ==
  [][\A response \in GatewayResponses : \A draw \in Draws :
       (FetchSettles(response, draw) /\ Throws(response)) =>
         /\ pictures' = pictures /\ windows' = windows
         /\ localStorage' = localStorage
         /\ home'.error # ""
         /\ (response.kind = "json" /\ response.data.error # "") =>
              home'.error = response.data.error
         /\ ~home'.loading]_vars

\* The gateway has refused a request with "rate limit exceeded" and the
\* dialog shows it.
C12_Witness ==
  /\ Ready
  /\ home.showPrompt
  /\ home.error = "rate limit exceeded"
  /\ ~home.loading
  /\ pending = Idle

\* C13: a file becomes the selected file only when its media type begins
\* with "image/" and its size is at most 10 * 1024 * 1024 bytes; a file that
\* fails either test is never read and is the source of no picture, and an
\* image file that is too large sets the error "Image file size must be less
\* than 10MB".
C13_OnlyValidFilesAreRead ==
  [][/\ \A file \in Files : FileSelect(file) =>
          /\ home'.selectedFile = file =>
               /\ SubSeq(file.type, 1, 6) = <<"i", "m", "a", "g", "e", "/">>
               /\ file.size <= 10 * 1024 * 1024
          /\ (file.type = ImagePng /\ file.size > 10 * 1024 * 1024) =>
               home'.error = "Image file size must be less than 10MB"
          /\ pending' = pending /\ pictures' = pictures
     /\ \A j \in 1..Len(pending') :
          pending'[j].kind = "read" =>
            pending'[j].file \in {ImageFile, LimitImageFile}
     /\ \A i \in 1..Len(pictures') :
          pictures'[i].url \notin {BigImageFile.dataUrl, TextFile.dataUrl}]_vars

\* A file that is too large was refused after a file of exactly 10 MB had
\* been selected, and the file of 10 MB is on the wall.
C13_Witness ==
  /\ Ready
  /\ \E i \in 1..Len(pictures) : pictures[i].url = LimitImageFile.dataUrl
  /\ home.showPrompt
  /\ home.error = "Image file size must be less than 10MB"

\* C14: a success payload {url, prompt, id} of the gateway appends exactly
\* one picture, with that id, url and prompt and with width = height = 250
\* whatever else the payload holds; in a viewport of 1000 by 800 its position
\* has 0 <= x <= 750 and 0 <= y <= 550.
C14_SuccessAppendsOnePicture ==
  [][\A response \in GatewayResponses : \A draw \in Draws :
       (FetchSettles(response, draw) /\ ~Throws(response)) =>
         LET new == pictures'[Len(pictures')]
         IN  /\ Len(pictures') = Len(pictures) + 1
             /\ SubSeq(pictures', 1, Len(pictures)) = pictures
             /\ windows' = windows
             /\ new.id = response.data.id
             /\ new.url = response.data.url
             /\ new.prompt = response.data.prompt
             /\ new.width = 250 /\ new.height = 250
             /\ (innerWidth = 1000 /\ innerHeight = 800) =>
                  /\ 0 <= new.x /\ new.x <= 750
                  /\ 0 <= new.y /\ new.y <= 550]_vars

\* A payload that carried a geometry of its own is on the wall of a viewport
\* of 1000 by 800, placed and sized by the page.
C14_Witness ==
  /\ Ready
  /\ innerWidth = 1000 /\ innerHeight = 800
  /\ \E i \in 1..Len(pictures) :
       /\ "provider" \in DOMAIN pictures[i]
       /\ pictures[i].width = DEFAULT_PICTURE_SIZE
       /\ pictures[i].x >= 0

\* The entity is DEFAULT_PICTURE_SIZE wide and high and lies inside the
\* viewport.
FitsViewport(e) ==
  /\ e.width = 250 /\ e.height = 250
  /\ e.x >= 0 /\ e.y >= 0
  /\ e.x + 250 <= innerWidth
  /\ e.y + 250 <= innerHeight

\* C15: every entity created by a gateway success, by a file read or by
\* "add window" has the size 250 by 250 and a position that fits the viewport
\* of that moment: x >= 0, y >= 0, x + 250 <= viewportWidth and
\* y + 250 <= viewportHeight, whatever the viewport.
C15_CreatedEntityFitsViewport ==
  [][/\ \A response \in GatewayResponses : \A draw \in Draws :
          (FetchSettles(response, draw) /\ ~Throws(response)) =>
            FitsViewport(pictures'[Len(pictures')])
     /\ \A id \in UploadIds : \A draw \in Draws :
          ReaderLoads(id, draw) => FitsViewport(pictures'[Len(pictures')])
     /\ \A id \in WindowIds : \A draw \in Draws :
          AddWindow(id, draw) => FitsViewport(windows'[Len(windows')])]_vars

\* C16 as the specification words it: an entity of 250 by 250 that resizes,
\* on a pointer-move at (400, -50) from where the gesture started, is
\* committed with width = 500 and height = 150.
C16_ResizeScenario ==
  [][\A p \in ScenarioPointers : MouseMove(p) =>
       \A kind \in Kinds : \A i \in 1..Len(Coll(kind)) :
         LET f == frames[kind][i]
         IN  (/\ f.moveListeners > 0 /\ f.isResizing /\ ~f.isDragging
              /\ f.resizeStart.width = 250 /\ f.resizeStart.height = 250
              /\ p[1] - f.resizeStart.x = 400
              /\ p[2] - f.resizeStart.y = -50) =>
               /\ CollAfter(kind)[i].width = 500
               /\ CollAfter(kind)[i].height = 150]_vars

\* C16, amended: that pointer-move commits width = 500 (650 cut to the
\* maximum) and height = 200 (250 - 50, within the bounds).
C16_ResizeScenarioHeight200 ==
  [][\A p \in ScenarioPointers : MouseMove(p) =>
       \A kind \in Kinds : \A i \in 1..Len(Coll(kind)) :
         LET f == frames[kind][i]
         IN  (/\ f.moveListeners > 0 /\ f.isResizing /\ ~f.isDragging
              /\ f.resizeStart.width = 250 /\ f.resizeStart.height = 250
              /\ p[1] - f.resizeStart.x = 400
              /\ p[2] - f.resizeStart.y = -50) =>
               /\ CollAfter(kind)[i].width = 500
               /\ CollAfter(kind)[i].height = 200]_vars

\* A resize that started at (100, 100) on an entity of 250 by 250 has
\* committed 500 by 200.
C16_Witness ==
  /\ Ready
  /\ \E kind \in Kinds : \E i \in 1..Len(Coll(kind)) :
       /\ frames[kind][i].isResizing /\ ~frames[kind][i].isDragging
       /\ frames[kind][i].resizeStart =
            [x |-> 100, y |-> 100, width |-> 250, height |-> 250]
       /\ Coll(kind)[i].width = 500 /\ Coll(kind)[i].height = 200

\* C17: while a generation request is in flight (loading is true), a
\* pointer-down on the frame of an entity of the wall still starts a drag.
C17_DragWhileLoading ==
  (Ready /\ home.loading /\ InFlight("fetch") # {} /\ downs < MaxGestures) =>
    \A kind \in Kinds : \A i \in 1..Len(Coll(kind)) : \A p \in StorePointers :
      Hit(kind, i, p) => ENABLED MouseDownFrame(kind, i, p)

\* C18: at most one acquisition (gateway call or file read) is in flight at
\* any time: one is in flight exactly while loading is true, and none starts
\* while loading is true, whatever the order of submit, mode toggle, file
\* selection and cancel.
C18_OneAcquisitionAtATime ==
  [][/\ Len(pending') <= 1
     /\ Ready' => (home'.loading <=> Len(pending') = 1)
     /\ Len(pending') > Len(pending) => ~home.loading /\ Len(pending) = 0]_vars

\* A file read is in flight while the form was switched to generate mode.
C18_Witness ==
  /\ Ready
  /\ home.loading
  /\ Len(pending) = 1 /\ pending[1].kind = "read"
  /\ home.addMode = "generate"

\* The members of an entity that make its geometry.
Geometry == {"x", "y", "width", "height"}

LacksGeometry(item) ==
  /\ item.json = "array"
  /\ \E i \in 1..Len(item.items) : ~(Geometry \subseteq DOMAIN item.items[i])

\* C20 as the specification words it: the backfill is not stored.  When the
\* page has started on a snapshot whose entities lack x, y, width or height,
\* the slot still holds that snapshot, without the backfilled values.
C20_BackfillNotStored ==
  [][(pc = "rendering" /\ pc' = "ready") =>
       \A kind \in Kinds :
         LacksGeometry(saved[EntityKey(kind)]) =>
           localStorage'[EntityKey(kind)] = saved[EntityKey(kind)]]_vars

\* C20, amended: the backfill is stored.  When the page has started on such
\* a snapshot, the slot holds the serialization of the backfilled collection:
\* every entity with the members it was stored with and with the x, y, width
\* and height it was given.
C20_BackfillStored ==
  [][(pc = "rendering" /\ pc' = "ready") =>
       \A kind \in Kinds :
         LET old == saved[EntityKey(kind)]
             new == localStorage'[EntityKey(kind)]
         IN  LacksGeometry(old) =>
               /\ new = StringifyCollection(CollAfter(kind))
               /\ Len(new.items) = Len(old.items)
               /\ \A i \in 1..Len(old.items) :
                    /\ Geometry \subseteq DOMAIN new.items[i]
                    /\ \A f \in DOMAIN old.items[i] :
                         new.items[i][f] = old.items[i][f]]_vars

\* The page has started on the picture stored without y and height, and the
\* slot now holds the picture with the y and the height it was given.
C20_Witness ==
  /\ Ready
  /\ Len(pictures) = 1 /\ pictures[1].width = 300
  /\ localStorage["wall-pictures"].json = "array"
  /\ localStorage["wall-pictures"].items[1].height = 250
  /\ localStorage["wall-pictures"].items[1].y = pictures[1].y

\* An API key is configured.
KeyConfigured(env) ==
  Truthy(env.IMAGE_API_KEY) \/ Truthy(env.LLM_API_KEY) \/ Truthy(env.GEMINI_API_KEY)

\* The error says that the key is required.
SaysKeyRequired(message) ==
  message \in
    {"IMAGE_API_KEY, GEMINI_API_KEY, or LLM_API_KEY environment variable is required",
     "IMAGE_API_KEY or LLM_API_KEY environment variable is required",
     "Image generation failed: IMAGE_API_KEY or LLM_API_KEY environment variable is required"}

\* C21: generateImage with a provider other than mock and with no API key
\* configured throws an error that says the key is required and sends no
\* request to a provider; with the mock provider and no key it returns an
\* image.
C21_KeyRequiredExceptMock ==
  (server.deployed /\ server.outcome.called /\ ~KeyConfigured(server.env)
     /\ server.env.IMAGE_PROVIDER.defined) =>
    LET result == server.outcome.result
    IN  IF server.env.IMAGE_PROVIDER.value = "mock"
          THEN ~result.threw /\ result.calls = 0
          ELSE /\ result.threw
               /\ SaysKeyRequired(result.message)
               /\ result.calls = 0

\* C22: the drag anchor a pointer-down captures is the offset of the pointer
\* from the entity's own (x, y), so that a pointer-move at the position of
\* the pointer-down commits the entity's (x, y) unchanged when that position
\* is within the bounds: starting a drag does not make the entity jump.
C22_DragStartDoesNotJump ==
  [][\A kind \in Kinds : \A i \in 1..MaxEntities : \A p \in WallPointers :
       MouseDownFrame(kind, i, p) =>
         LET e == Coll(kind)[i]
             f == frames'[kind][i]
             moved == MoveCommit(Coll(kind), f, e, p, innerWidth, innerHeight)[i]
         IN  /\ f.dragStart = [x |-> p[1] - e.x, y |-> p[2] - e.y]
             /\ (/\ 0 <= e.x /\ e.x <= innerWidth - e.width
                 /\ 0 <= e.y /\ e.y <= innerHeight - e.height) =>
                  moved.x = e.x /\ moved.y = e.y]_vars

\* C23: a drag accumulates no drift.  Every pointer-move of a drag commits
\* x = max(0, min(pointerX - anchorX, viewportWidth - width)) and the same
\* for y, and leaves the anchor and the size as they were: the position is a
\* function of the pointer, the anchor, the size and the viewport, not of the
\* moves before.
C23_DragHasNoDrift ==
  [][\A p \in WallPointers : MouseMove(p) =>
       \A kind \in Kinds : \A i \in 1..Len(Coll(kind)) :
         LET f == frames[kind][i]
             e == Coll(kind)[i]
             new == CollAfter(kind)[i]
         IN  (f.moveListeners > 0 /\ f.isDragging) =>
               /\ new.x = Max(0, Min(p[1] - f.dragStart.x, innerWidth - e.width))
               /\ new.y = Max(0, Min(p[2] - f.dragStart.y, innerHeight - e.height))
               /\ new.width = e.width /\ new.height = e.height
               /\ frames'[kind][i].dragStart = f.dragStart]_vars

\* A drag has taken the picture to a place that is neither where it started
\* nor at an edge of the viewport.
C23_Witness ==
  /\ Ready
  /\ \E i \in 1..Len(pictures) :
       /\ frames.picture[i].isDragging /\ ~frames.picture[i].isResizing
       /\ frames.picture[i].moveListeners > 0
       /\ pictures[i].x > WallPadding(innerWidth)
       /\ pictures[i].x < innerWidth - pictures[i].width
       /\ pictures[i].y > WallPadding(innerWidth)
       /\ pictures[i].y < innerHeight - pictures[i].height

\* clamp(v, 150, 500)
ClampSize(v) == IF v < 150 THEN 150 ELSE IF v > 500 THEN 500 ELSE v

\* C24: a pointer-down on the handle captures the pointer and the entity's
\* width and height; every pointer-move of the resize commits
\* width = clamp(startWidth + (pointerX - startX), 150, 500) and
\* height = clamp(startHeight + (pointerY - startY), 150, 500) from these
\* start values, which the move leaves as they were: the size depends neither
\* on earlier moves, nor the width on pointerY, nor the height on pointerX.
C24_ResizeFromStartValues ==
  [][/\ \A kind \in Kinds : \A i \in 1..MaxEntities : \A p \in WallPointers :
          MouseDownHandle(kind, i, p) =>
            frames'[kind][i].resizeStart =
              [x |-> p[1], y |-> p[2], width |-> Coll(kind)[i].width,
               height |-> Coll(kind)[i].height]
     /\ \A p \in WallPointers : MouseMove(p) =>
          \A kind \in Kinds : \A i \in 1..Len(Coll(kind)) :
            LET f == frames[kind][i]
                new == CollAfter(kind)[i]
            IN  (f.moveListeners > 0 /\ f.isResizing /\ ~f.isDragging) =>
                  /\ new.width =
                       ClampSize(f.resizeStart.width + (p[1] - f.resizeStart.x))
                  /\ new.height =
                       ClampSize(f.resizeStart.height + (p[2] - f.resizeStart.y))
                  /\ new.x = Coll(kind)[i].x /\ new.y = Coll(kind)[i].y
                  /\ frames'[kind][i].resizeStart = f.resizeStart]_vars

\* A resize that started at (100, 100) on an entity of 250 by 250 has the
\* pointer at (300, 150): the entity is 450 by 300.
C24_Witness ==
  /\ Ready
  /\ \E kind \in Kinds : \E i \in 1..Len(Coll(kind)) :
       /\ frames[kind][i].isResizing /\ ~frames[kind][i].isDragging
       /\ frames[kind][i].resizeStart =
            [x |-> 100, y |-> 100, width |-> 250, height |-> 250]
       /\ Coll(kind)[i].width = 450 /\ Coll(kind)[i].height = 300

\* The other collection.
Other(kind) == IF kind = "picture" THEN "window" ELSE "picture"

\* From old to new, the entities with this id have the given values in the
\* given members and every other member as before, and the other entities
\* are as before, in the same places.
OnlyChanged(old, new, id, members) ==
  /\ Len(new) = Len(old)
  /\ \A i \in 1..Len(old) :
       IF old[i].id = id
         THEN /\ DOMAIN new[i] = DOMAIN old[i]
              /\ \A f \in DOMAIN members : new[i][f] = members[f]
              /\ \A f \in DOMAIN old[i] \ DOMAIN members : new[i][f] = old[i][f]
         ELSE new[i] = old[i]

\* C25: updatePosition(id, x, y) changes the x and y of the entity with that
\* id and updateSize(id, width, height) its width and height, and nothing
\* else: not its other members, not another entity, not the order, not the
\* other collection, not the wall settings; with an id that no entity has,
\* the call changes nothing.
C25_UpdateChangesOnlyItsFields ==
  [][\A kind \in Kinds : \A id \in CallIds :
       /\ OnPositionChange(kind, id, 200, 300) =>
            /\ OnlyChanged(Coll(kind), CollAfter(kind), id,
                           [x |-> 200, y |-> 300])
            /\ CollAfter(Other(kind)) = Coll(Other(kind))
            /\ wallSettings' = wallSettings
            /\ (\A i \in 1..Len(Coll(kind)) : Coll(kind)[i].id # id) =>
                 CollAfter(kind) = Coll(kind) /\ localStorage' = localStorage
       /\ OnSizeChange(kind, id, 200, 300) =>
            /\ OnlyChanged(Coll(kind), CollAfter(kind), id,
                           [width |-> 200, height |-> 300])
            /\ CollAfter(Other(kind)) = Coll(Other(kind))
            /\ wallSettings' = wallSettings
            /\ (\A i \in 1..Len(Coll(kind)) : Coll(kind)[i].id # id) =>
                 CollAfter(kind) = Coll(kind) /\ localStorage' = localStorage]_vars

\* The second of three pictures was given the position (200, 300) and the
\* size 200 by 300 while the other pictures and the window are as they were
\* placed.
C25_Witness ==
  /\ Ready
  /\ Len(pictures) = 3 /\ Len(windows) = 1
  /\ pictures[2].x = 200 /\ pictures[2].y = 300
  /\ pictures[2].width = 200 /\ pictures[2].height = 300
  /\ pictures[2].url = ImageFile.dataUrl
  /\ pictures[1] = PlacedPicture("p1", <<0, 0>>, <<innerWidth, innerHeight>>)
  /\ pictures[3] = PlacedPicture("p2", <<3, 0>>, <<innerWidth, innerHeight>>)
  /\ windows[1] = PlacedWindow("window-1", <<3, 3>>, <<innerWidth, innerHeight>>)

\* The places of old whose entity has another id than this one, and the
\* n-th of them.
Kept(old, id) == {i \in 1..Len(old) : old[i].id # id}
NthKept(old, id, n) ==
  CHOOSE i \in Kept(old, id) : Cardinality({k \in Kept(old, id) : k < i}) = n - 1

\* C26: remove(id) takes the entity with that id out of its collection and
\* changes nothing else: the entities that remain are those with another id,
\* with their members and in their order, the other collection and the wall
\* settings are as before, and with an id that no entity has the call
\* changes nothing and raises no error.
C26_RemoveChangesNothingElse ==
  [][\A kind \in Kinds : \A id \in CallIds :
       /\ OnRemove(kind, id) =>
            /\ Len(CollAfter(kind)) = Cardinality(Kept(Coll(kind), id))
            /\ \A n \in 1..Len(CollAfter(kind)) :
                 CollAfter(kind)[n] = Coll(kind)[NthKept(Coll(kind), id, n)]
            /\ CollAfter(Other(kind)) = Coll(Other(kind))
            /\ wallSettings' = wallSettings
            /\ pc' = "ready"
            /\ Kept(Coll(kind), id) = 1..Len(Coll(kind)) =>
                 CollAfter(kind) = Coll(kind) /\ localStorage' = localStorage
       /\ (Ready /\ pc' = "ready") => ENABLED OnRemove(kind, id)]_vars

\* The second of three pictures was removed: the first and the third are on
\* the wall, in this order, with the window.
C26_Witness ==
  /\ Ready
  /\ Len(pictures) = 2 /\ Len(windows) = 1
  /\ pictures[1].id = "p1" /\ pictures[2].id = "p2"
  /\ localStorage["wall-pictures"] = StringifyCollection(pictures)

\* The ids of a sequence of entities, in its order.
Ids(coll) == [i \in 1..Len(coll) |-> coll[i].id]

\* C27: each collection keeps the order of insertion.  An add puts the new
\* entity last; no step (remove, updatePosition, updateSize, the write to
\* localStorage, the startup from it) changes the relative order of two
\* entities that both remain; the snapshot written and the collection loaded
\* from it have the order of the collection.
C27_InsertionOrderKept ==
  [][\A kind \in Kinds :
       LET old == Coll(kind)
           new == CollAfter(kind)
       IN  /\ \A i, j \in 1..Len(old) : \A k, l \in 1..Len(new) :
                (i < j /\ new[k].id = old[i].id /\ new[l].id = old[j].id) => k < l
           /\ Len(new) = Len(old) + 1 => SubSeq(new, 1, Len(old)) = old
           /\ (pc = "rendering" /\ saved[EntityKey(kind)].json = "array") =>
                Ids(new) = Ids(saved[EntityKey(kind)].items)
           /\ (pc' = "ready" /\ Len(new) > 0) =>
                Ids(localStorage'[EntityKey(kind)].items) = Ids(new)]_vars

\* The pictures were removed and a window was added to the wall that had a
\* window: it is the second, in memory and in the snapshot.
C27_Witness ==
  /\ Ready
  /\ Ids(windows) = <<"window-1", "window-2">>
  /\ Ids(localStorage["wall-windows"].items) = <<"window-1", "window-2">>
  /\ pictures = <<>>

\* C28: clearAll acts only when it is confirmed.  Confirmed, it leaves both
\* collections empty and both collection slots absent, and the wall settings
\* and the settings slot as they were; declined, it changes neither memory
\* nor localStorage.
C28_ClearAllOnlyWhenConfirmed ==
  [][/\ ClearAll(TRUE) =>
          /\ pictures' = <<>> /\ windows' = <<>>
          /\ localStorage'["wall-pictures"] = Absent
          /\ localStorage'["wall-windows"] = Absent
          /\ wallSettings' = wallSettings
          /\ localStorage'["wall-settings"] = localStorage["wall-settings"]
     /\ ClearAll(FALSE) =>
          /\ pictures' = pictures /\ windows' = windows
          /\ wallSettings' = wallSettings
          /\ localStorage' = localStorage]_vars

\* A wall that had a picture in a gesture and the texture "brick" was
\* cleared: it is empty, the collection slots are absent and the settings
\* slot holds the texture.
C28_Witness ==
  /\ Ready
  /\ home.showSettings
  /\ downs > 0
  /\ pictures = <<>> /\ windows = <<>>
  /\ localStorage["wall-pictures"] = Absent
  /\ localStorage["wall-windows"] = Absent
  /\ localStorage["wall-settings"].members.texture = "brick"

\* C29: setWallSettings merges.  Setting backgroundColor leaves texture as
\* it is and setting texture leaves backgroundColor as it is, neither changes
\* an entity or a collection slot, the settings slot holds the merged
\* settings, and no step removes the settings slot.
C29_SettingsMerge ==
  [][/\ \A field \in {"backgroundColor", "texture"} :
        \A value \in {"#DBEAFE", "brick"} :
          SetWallSetting(field, value) =>
            /\ wallSettings'[field] = value
            /\ DOMAIN wallSettings' = DOMAIN wallSettings \cup {field}
            /\ \A f \in DOMAIN wallSettings \ {field} :
                 wallSettings'[f] = wallSettings[f]
            /\ pictures' = pictures /\ windows' = windows
            /\ localStorage' =
                 [localStorage EXCEPT !["wall-settings"] =
                    JsonObject(wallSettings')]
     /\ localStorage["wall-settings"] # Absent =>
          localStorage'["wall-settings"] # Absent]_vars

\* The page started on settings stored with the texture "brick" alone, and
\* the background colour was set: the settings and their slot hold both.
C29_Witness ==
  /\ Ready
  /\ wallSettings = [texture |-> "brick", backgroundColor |-> "#DBEAFE"]
  /\ localStorage["wall-settings"] = JsonObject(wallSettings)
  /\ Len(pictures) > 0

\* The entity lies partly outside a viewport of vw by vh.
PartlyOutside(e, vw, vh) == e.x + e.width > vw \/ e.y + e.height > vh

\* C30: a change of the viewport size changes no entity and no slot, also
\* when it leaves an entity partly outside the viewport; the position of such
\* an entity changes only in a pointer-move of a drag of that entity, which
\* commits a position clamped to the viewport of that moment.
C30_ViewportChangeMovesNothing ==
  [][/\ \A vp \in Viewports : ResizeViewport(vp) =>
          /\ pictures' = pictures /\ windows' = windows
          /\ localStorage' = localStorage
     /\ \A kind \in Kinds : \A i \in 1..Len(Coll(kind)) :
          LET e == Coll(kind)[i]
          IN  (/\ pc = "ready" /\ pc' = "ready"
               /\ Len(CollAfter(kind)) = Len(Coll(kind))
               /\ PartlyOutside(e, innerWidth, innerHeight)
               /\ <<CollAfter(kind)[i].x, CollAfter(kind)[i].y>> # <<e.x, e.y>>) =>
                 /\ \E p \in WallPointers : MouseMove(p)
                 /\ frames[kind][i].isDragging /\ frames[kind][i].moveListeners > 0
                 /\ CollAfter(kind)[i].x <= Max(0, innerWidth - e.width)
                 /\ CollAfter(kind)[i].y <= Max(0, innerHeight - e.height)]_vars

\* The viewport went from 1000 by 800 to 300 by 200: the window is still at
\* (487, 337), outside the viewport, and a drag has taken the picture to the
\* right edge of the new viewport.
C30_Witness ==
  /\ Ready
  /\ innerWidth = 300 /\ innerHeight = 200
  /\ Len(windows) = 1 /\ windows[1].x = 487 /\ windows[1].y = 337
  /\ Len(pictures) = 1 /\ frames.picture[1].isDragging
  /\ pictures[1].x = 50

\* C33: once the button went up where no mouseup reaches window, a mousemove
\* that comes before the next pointer-down changes no entity's position or
\* size.
C33_LostUpFreezesEntity ==
  [][\A p \in ScenarioPointers :
       (upLost /\ MouseMove(p)) => (pictures' = pictures /\ windows' = windows)]_vars

\* The frames with a gesture on, and the entities a step changed.
BusyFrames ==
  {<<kind, i>> \in Kinds \X (1..MaxEntities) :
     i <= Len(frames[kind]) /\ Busy(frames[kind][i])}
ChangedEntities ==
  {<<kind, i>> \in Kinds \X (1..MaxEntities) :
     /\ i <= Len(Coll(kind)) /\ i <= Len(CollAfter(kind))
     /\ CollAfter(kind)[i] # Coll(kind)[i]}

\* C34: at most one frame has a gesture on at any time, and a mousemove
\* changes the geometry of at most one entity, also when no mouseup comes
\* between two pointer-downs.
C34_OneControllerAtATime ==
  [][/\ Cardinality(BusyFrames) <= 1
     /\ \A p \in WallPointers :
          MouseMove(p) => Cardinality(ChangedEntities) <= 1]_vars

\* The form is open with what its submit needs, and the wall has room.
FormFilled ==
  /\ Ready /\ home.showPrompt
  /\ home.addMode = "generate" => home.prompt # ""
  /\ home.addMode = "upload" => home.selectedFile # NoFile
  /\ Len(pictures) + Len(windows) < MaxEntities

\* C31: when every fetch and every read settles, loading is always followed
\* by loading = false; and whenever loading is false nothing is left in
\* flight and a filled form can be submitted.
C31_LoadingEnds ==
  /\ home.loading ~> ~home.loading
  /\ [](~home.loading => (pending = Idle /\ (FormFilled => ENABLED Submit)))

\* Loading has ended on a failed read and on a failed fetch with the form
\* still open, and on a success before them: the wall has the picture of the
\* success, the form shows the error of the failure and can be submitted.
C31_Witness ==
  /\ Ready /\ ~home.loading /\ pending = Idle
  /\ Len(pictures) = 1
  /\ home.error \in {"Failed to read image file", "Failed to fetch"}
  /\ ENABLED Submit

\* The acquisition is over.
Settles == server.call.phase \in {"returned", "thrown"}

\* C32: generateReplicateImage ends: a created prediction is polled at most
\* maxAttempts times; the acquisition returns only on a status succeeded with
\* an output, and throws on a non-2xx status answer, on failed or canceled, on
\* succeeded without output, and when the last of the maxAttempts polls still
\* finds the prediction running.
C32_ReplicateTerminates ==
  /\ <>Settles
  /\ [](server.call.attempts <= maxAttempts)
  /\ [](server.call.phase = "polling" => server.call.attempts < maxAttempts)
  /\ [](server.call.phase = "returned" =>
          (server.call.last.ok /\ server.call.last.status = "succeeded"
             /\ Truthy(server.call.last.imageUrl)))
  /\ [][(server.call.phase = "polling" /\ server.call.phase' = "polling") =>
          server.call.attempts' = server.call.attempts + 1]_vars
  /\ []((server.call.phase = "thrown" /\ server.call.attempts < maxAttempts) =>
          \/ ~server.call.last.ok
          \/ "id" \in DOMAIN server.call.last
          \/ server.call.last.status \in {"failed", "canceled"}
          \/ server.call.last.status = "succeeded"
               /\ ~Truthy(server.call.last.imageUrl))

\* The sixtieth poll found the prediction still running: the acquisition threw.
C32_Witness ==
  /\ server.call.phase = "thrown"
  /\ server.call.attempts = maxAttempts
  /\ server.call.last.status = "processing"

\* C35: the picture of a completed fetch or read is appended to the
\* collection as it is at completion: the pictures that are there then, with
\* the positions and sizes they have then, stay in their order before the new
\* one, a picture removed in the meantime stays removed, the windows stay,
\* and the slot holds the result.
C35_NoLostUpdate ==
  [][(pc = "ready" /\ Len(pending') < Len(pending)) =>
       /\ Len(pictures') = Len(pictures) + 1
       /\ SubSeq(pictures', 1, Len(pictures)) = pictures
       /\ pictures'[Len(pictures')].id \in {"p2", "upload-1"}
       /\ windows' = windows
       /\ localStorage'["wall-pictures"] = StringifyCollection(pictures')
       /\ ~home'.loading]_vars

\* p1 was moved and resized while a request was in flight, and the picture
\* of a completed request stands after it.
C35_Witness ==
  /\ Ready /\ pending = Idle
  /\ Len(pictures) >= 2
  /\ pictures[1].id = "p1" /\ pictures[1].x = 200 /\ pictures[1].y = 300
  /\ pictures[1].width = 200 /\ pictures[1].height = 300
  /\ pictures[Len(pictures)].id = "upload-1"

\* C36: on a wall that starts from storage the program wrote, every picture
\* and every window has a width and a height from MIN_SIZE to MAX_SIZE, in
\* memory at every step and in every snapshot the slots hold.
C36_SizesWithinBounds ==
  LET InBounds(e) ==
        /\ MIN_SIZE <= e.width /\ e.width <= MAX_SIZE
        /\ MIN_SIZE <= e.height /\ e.height <= MAX_SIZE
      Stored(key) ==
        IF localStorage[key].json = "array" THEN localStorage[key].items ELSE <<>>
  IN  /\ \A kind \in Kinds : \A i \in 1..Len(Coll(kind)) : InBounds(Coll(kind)[i])
      /\ \A key \in {"wall-pictures", "wall-windows"} :
           \A i \in 1..Len(Stored(key)) : InBounds(Stored(key)[i])

\* p1 was resized up to the maximum and the generated picture down to the
\* minimum, and the snapshot has been loaded again with these sizes.
C36_Witness ==
  /\ pc = "loaded"
  /\ queued.pictures.set /\ Len(queued.pictures.value) = 2
  /\ queued.pictures.value[1].width = MAX_SIZE
  /\ queued.pictures.value[1].height = MAX_SIZE
  /\ queued.pictures.value[2].width = MIN_SIZE
  /\ queued.pictures.value[2].height = MIN_SIZE

\* The slots hold what the save effects write: for a collection no item or
\* the array of entities with their geometry, for the settings the object
\* with its two members.
ProgramWritten(store) ==
  /\ \A key \in {"wall-pictures", "wall-windows"} :
       \/ store[key] = Absent
       \/ /\ store[key].json = "array" /\ Len(store[key].items) > 0
          /\ \A i \in 1..Len(store[key].items) :
               {"id", "x", "y", "width", "height"} \subseteq DOMAIN store[key].items[i]
  /\ store["wall-settings"].json = "object"
  /\ DOMAIN store["wall-settings"].members = DOMAIN defaultSettings

\* The collection a slot holds.
SlotItems(item) == IF item = Absent THEN <<>> ELSE item.items

\* C37: when the three slots held what the program wrote as the page was
\* opened, the render that ends startup leaves the page ready, with the
\* collections and the settings of the slots in memory and with the three
\* slots as they were before startup.
C37_ReloadLosesNothing ==
  [][(Rerender /\ ProgramWritten(saved)) =>
       /\ pc' = "ready"
       /\ pictures' = SlotItems(saved["wall-pictures"])
       /\ windows' = SlotItems(saved["wall-windows"])
       /\ wallSettings' = saved["wall-settings"].members
       /\ localStorage' = saved]_vars

\* The page was opened again after the picture was moved, a window added
\* and the texture changed: startup has ended with all three in memory.
C37_Witness ==
  /\ Ready /\ home = InitialHome
  /\ Len(pictures) = 1 /\ pictures[1].x > 0
  /\ Len(windows) = 1
  /\ wallSettings.texture = "brick"
  /\ localStorage = SaveAll(NothingRead, pictures, windows, wallSettings)

\* C38: from the load effect to the render that applies what it read, a
\* collection slot that held a snapshot still holds it, and a settings slot
\* that held settings still holds them.
C38_NoSaveBeforeRehydration ==
  pc \in {"loaded", "rendering"} =>
    /\ \A key \in {"wall-pictures", "wall-windows"} :
         saved[key].json = "array" => localStorage[key] = saved[key]
    /\ saved["wall-settings"].json = "object" =>
         localStorage["wall-settings"] = saved["wall-settings"]

\* C39: once startup is over, whatever the settings slot held, the wall
\* settings have a backgroundColor and a texture of the enumeration.
C39_SettingsComplete ==
  pc \in {"ready", "crashed"} =>
    /\ DOMAIN wallSettings = {"backgroundColor", "texture"}
    /\ wallSettings.texture \in WallTexture

\* C40: after handleFileSelect refused a file, for its type or for its
\* size, no file is selected.
C40_RejectedFileSelectsNothing ==
  [][\A file \in Files :
       (FileSelect(file) /\ (~IsImageType(file.type) \/ file.size > MAX_FILE_BYTES)) =>
         home'.selectedFile = NoFile]_vars

====
